---- MODULE Spec2Model ----
\* Light House: the scan -> ingest pipeline (lighthouse/indexer.py), the catalog
\* store it writes (lighthouse/db.py), the vector index (vector_index.py) and the
\* web-layer operations that drive them (lighthouse/web.py).
EXTENDS Integers, Sequences, FiniteSets, TLC

\* ---------------------------------------------------------------- bounds
\* LIGHTHOUSE_INGEST_QUEUE_MAX and LIGHTHOUSE_SCAN_QUEUE_MAX as set in the environment.
ingest_max == 1
scan_max == 1
\* How many scans are requested (roots_add) in one run.
MaxScans == 2
\* How many other outside events (roots_remove requests, watcher events, catch-up
\* rounds, files rewritten, thumbnails lost) happen in one run.
MaxEvents == 2
\* PhotoIndexer._recent_max as used here (the program keeps 50 entries).
recent_max == 1
\* PHOTOBROWSE_MAX_ELEMENTS as set in the environment, and the least capacity that
\* _default_max_elements returns (the program's 10_000, scaled down).
PHOTOBROWSE_MAX_ELEMENTS == 2
least_max_elements == 1
\* Labels handed to the vector index on its own are 1..MaxLabel.
MaxLabel == 3
\* Page requests ask for offset 0..MaxOffset and limit 1..MaxLimit, on MaxDays days.
MaxOffset == 1
MaxLimit == 2
MaxDays == 2
\* The similarity lists handed to _pick_relevance_split on its own continue the six
\* scores 0.9, 0.88, 0.85, 0.40, 0.38, 0.35 with up to MaxTail scores, each lower
\* than the one before by the same 0..MaxStep thousandths.
\* The failures the worker threads meet while their steps are followed one by one.
MaxFailed == 2
MaxTail == 60
MaxStep == 2

\* ---------------------------------------------------------------- the world
\* The calendar day on which the process starts, as strftime("%Y%m%d") gives it.
FirstDay == 20261104
\* No page was requested yet.
NoResponse == [status |-> "none", rows |-> <<>>, combined |-> <<>>, semantic |-> <<>>,
               lexical |-> <<>>, total_matches |-> 0,
               request |-> [q |-> "", flt |-> <<>>, offset |-> 0, limit |-> 0,
                            score |-> <<>>]]
\* An optional value is a sequence of length 0 (absent) or 1.
None == <<>>
Some(x) == <<x>>
\* Directories that can be tracked, and the image files below each, in os.walk order.
Dirs == {"d1", "d2"}
WalkOrder(dir) == IF dir = "d1" THEN <<"d1/a">> ELSE <<"d2/b">>
Paths == {"d1/a", "d2/b"}
DirOf(path) == IF path = "d1/a" THEN "d1" ELSE "d2"
\* embedder.model_id of the running process.
ModelId == "open_clip:ViT-B-32:openai"
\* The embedding width of that model, and another model with another width.
ClipDim == 512
OtherModelId == "open_clip:ViT-L-14:openai"
OtherDim == ClipDim + 256
NULL == "NULL"

VARIABLES
    tracked_roots,   \* table tracked_roots: id -> [path, scan_started, scan_finished]
    photos,          \* table photos: a set of rows
    thumbs,          \* photo ids whose thumbnail file exists
    labels,          \* live labels of the vector index
    deleted_labels,  \* labels marked deleted in the vector index
    fs,              \* path -> (size, mtime) signature of the file, 0 when it is gone
    q,               \* PhotoIndexer._q
    scan_q,          \* PhotoIndexer._scan_q
    stop,            \* PhotoIndexer._stop
    scan_progress,   \* PhotoIndexer._scan_progress: root id -> progress record
    active_scan,     \* scanner thread: None, or the scan it is running
    active_ingest,   \* ingest thread: None, or the task it is running
    second_ingest,   \* a second execution of _index_one on the same catalog
    watcher_blocked, \* watcher callback inside enqueue(): None, or its task
    scan_blocked,    \* web request inside enqueue_scan_root(): None, or its task
    search_missing,  \* a search request between its catalog check and delete_many
    recent_ingest,   \* PhotoIndexer._recent_ingest
    scans,           \* number of scans requested so far
    events,          \* number of other outside events so far
    observed,        \* what the caller of the last step saw of it: "none", or
                     \* "placed"/"dropped" (catch-up round), "noop" (_index_one
                     \* of the ingest thread returned without a write), "ok" /
                     \* "raised" (a VectorIndex method returned / raised)
    loaded,          \* VectorIndex._loaded
    max_elements,    \* capacity of the hnswlib index in memory
    config,          \* VectorIndex.dim and VectorIndex.model_id of the process
    hnswlib,         \* whether `import hnswlib` succeeds in the process
    bin_path,        \* index_dir/hnsw.bin: None, or the saved index
    meta_path,       \* index_dir/meta.json: None, or the saved descriptor
    embedder,        \* the embedder of the process: "none" (not configured),
                     \* "broken" (its dependencies do not load) or "ok"
    now,             \* datetime.now(): [date (yyyymmdd), hour]
    response,        \* what the last / request got from _library_rows
    split_scores,    \* _pick_relevance_split: its argument, similarities in thousandths
    split_n,         \* _pick_relevance_split: None, or what it returned
    failed_total,    \* PhotoIndexer._failed_total
    last_failed,     \* PhotoIndexer._last_failed: None, or the path and root id
    ingest_mark,     \* the ingest thread inside _maybe_mark_scan_finished, past its
                     \* checks and before its UPDATE: the root id, or None
    scan_mark,       \* the same position of the scanner thread
    limiter,         \* the rate limit on persisted root errors, exercised on its
                     \* own: None, or [clock, last_root_error_at, scanner, ingest,
                     \* persisted_at]
    threads,         \* start and shutdown of the threads, exercised on their own:
                     \* None, or [worker, scanner, stopper, conns, foreign, flushes];
                     \* the threads at the lock of the vector index, exercised on
                     \* their own: [at, op, owner, inits]
    flush,           \* the persist interval of the ingest thread, exercised on its
                     \* own: None, or [clock, last_persist, adds, calls, stopped,
                     \* stop_calls]
    monitor,         \* the liveness monitor and the other producers of tasks,
                     \* exercised on their own: None, or [status, last_error,
                     \* exists, rows, todo, waiting]
    scan_wave        \* _scan_wave and _last_scan_wave_summary, exercised on their
                     \* own: None, or [wave, last, ran, closed]

\* The state of the vector index below the label sets: what the pipeline steps
\* leave alone.
index_state == <<loaded, max_elements, config, hnswlib, bin_path, meta_path>>
\* The state of a page request.
web_state == <<embedder, now, response>>
\* The failure record of the worker threads and their places in
\* _maybe_mark_scan_finished.
worker_state == <<failed_total, last_failed, ingest_mark, scan_mark>>
\* The state of a call of _pick_relevance_split.
split_state == <<split_scores, split_n>>
\* The state of the parts of PhotoIndexer that are exercised on their own.
side_state == <<limiter, threads, flush, monitor, scan_wave>>
\* The state that the steps of a component exercised on its own leave alone.
unit_state == <<index_state, web_state, split_state, side_state, worker_state>>
\* The state of the pipeline that the vector index methods and the page requests
\* leave alone.
pipeline_state == <<tracked_roots, photos, thumbs, fs, q, scan_q, stop, scan_progress,
                    active_scan, active_ingest, second_ingest, watcher_blocked,
                    scan_blocked, search_missing, recent_ingest, scans, events>>

vars == <<tracked_roots, photos, thumbs, labels, deleted_labels, fs, q, scan_q, stop,
          scan_progress, active_scan, active_ingest, second_ingest, watcher_blocked,
          scan_blocked, search_missing, recent_ingest, scans, events, observed,
          unit_state>>

\* ---------------------------------------------------------------- helpers
Max(a, b) == IF a >= b THEN a ELSE b
Min(a, b) == IF a <= b THEN a ELSE b
MaxOf(S) == CHOOSE m \in S : \A x \in S : x <= m
Range(s) == {s[i] : i \in 1..Len(s)}
\* The function f without x in its domain.
Without(f, x) == [y \in DOMAIN f \ {x} |-> f[y]]
\* The function f with x mapped to v.
With(f, x, v) == [y \in DOMAIN f \cup {x} |-> IF y = x THEN v ELSE f[y]]
\* The rows of a set, as a sequence in ascending id order (ORDER BY id).
RECURSIVE OrderById(_)
OrderById(rows) ==
    IF rows = {} THEN <<>>
    ELSE LET r == CHOOSE x \in rows : \A y \in rows : x.id <= y.id
         IN <<r>> \o OrderById(rows \ {r})

\* SQLite INTEGER PRIMARY KEY without AUTOINCREMENT: the new rowid is one more than
\* the largest rowid in the table (a deleted largest id is handed out again).
NextRowId(ids) == IF ids = {} THEN 1 ELSE MaxOf(ids) + 1

\* A queue of one slot more than configured.
IngestQueueOneMore == Max(1, ingest_max) + 1

\* queue.Queue(maxsize=max(1, ...)); a maxsize of 0 makes a queue unbounded.
IngestQueueMaxsize == Max(1, ingest_max)
ScanQueueMaxsize == Max(1, scan_max)
\* queue.Queue.full(): 0 < maxsize <= qsize.
QueueFull(queue, maxsize) == maxsize > 0 /\ Len(queue) >= maxsize

\* enqueue() that gives the task up instead of putting it.
EnqueueGivingUp(queue, task, stopped) == queue

\* PhotoIndexer.enqueue(task), once its loop has ended: the queue with the task
\* put at the end, or the queue as it was when the loop ended because _stop is set.
Enqueue(queue, task, stopped) == IF stopped THEN queue ELSE Append(queue, task)
\* PhotoIndexer.enqueue_scan_root(root_id, root_path): the same loop on _scan_q.
EnqueueScanRoot(queue, task, stopped) == IF stopped THEN queue ELSE Append(queue, task)
\* Either loop can end: _stop is set or the put finds room.
EnqueueReturns(queue, maxsize, stopped) == stopped \/ ~QueueFull(queue, maxsize)

\* ---------------------------------------------------------------- catalog store
PhotoIds == {p.id : p \in photos}
\* SELECT id, size_bytes, mtime_ns, embedding_model FROM photos WHERE path = ?
\* (fetchone): the row as an optional value.
SelectByPath(db, path) ==
    LET rows == {p \in db : p.path = path} IN
    IF rows = {} THEN None
    ELSE Some(CHOOSE p \in rows : \A o \in rows : p.id <= o.id)

\* INSERT INTO photos on a table whose path column is not UNIQUE.
InsertPhotoAnyPath(db, roots, root_id, path, sig) ==
    IF root_id \notin DOMAIN roots THEN [ok |-> FALSE, db |-> db]
    ELSE [ok |-> TRUE,
          db |-> db \cup {[id |-> NextRowId({p.id : p \in db}), root_id |-> root_id,
                           path |-> path, sig |-> sig, has_wh |-> FALSE,
                           embedding_model |-> NULL]}]

NewRow(db, root_id, path, sig) ==
    [id |-> NextRowId({p.id : p \in db}), root_id |-> root_id, path |-> path,
     sig |-> sig, has_wh |-> FALSE, embedding_model |-> NULL]
\* INSERT INTO photos(...): path is UNIQUE, root_id REFERENCES tracked_roots(id) with
\* foreign_keys=ON. ok is FALSE when the statement raises IntegrityError.
InsertPhoto(db, roots, root_id, path, sig) ==
    IF \E p \in db : p.path = path THEN [ok |-> FALSE, db |-> db]
    ELSE IF root_id \notin DOMAIN roots THEN [ok |-> FALSE, db |-> db]
    ELSE [ok |-> TRUE, db |-> db \cup {NewRow(db, root_id, path, sig)}]

\* UPDATE photos SET size_bytes=?, mtime_ns=?, ... WHERE id=?
UpdateMeta(db, id, sig) ==
    {IF p.id = id THEN [p EXCEPT !.sig = sig] ELSE p : p \in db}
\* UPDATE photos SET width=?, height=? WHERE id=?
UpdateWidthHeight(db, id) ==
    {IF p.id = id THEN [p EXCEPT !.has_wh = TRUE] ELSE p : p \in db}
\* An UPDATE that leaves the row as it is.
UpdateEmbeddingNothing(db, id) == db

\* UPDATE photos SET embedding_dim=?, embedding_model=? WHERE id=?
UpdateEmbedding(db, id) ==
    {IF p.id = id THEN [p EXCEPT !.embedding_model = ModelId] ELSE p : p \in db}

\* DELETE FROM tracked_roots WHERE id=? on a connection without foreign_keys=ON.
DeleteRootOnly(db, root_id) == db

\* DELETE FROM tracked_roots WHERE id=?, with photos.root_id ON DELETE CASCADE.
DeleteRootCascade(db, root_id) == {p \in db : p.root_id # root_id}

\* ---------------------------------------------------------------- vector index
\* VectorIndex defines add_or_update, delete, delete_many, add_many, search and
\* persist; it defines no has_label, so getattr(vector_index, "has_label", None)
\* is None and callable(has_label) is False.
HasLabelCallable == FALSE

\* VectorIndex.add_or_update(label, vector) -> hnswlib add_items. Re-adding a label
\* that is marked deleted either revives it or raises RuntimeError, depending on
\* the hnswlib build and on how the loaded index was created; `revive` picks one.
AddOrUpdate(lb, dl, label, revive) ==
    IF label \in dl /\ ~revive
    THEN [labels |-> lb, deleted |-> dl, ok |-> FALSE]
    ELSE [labels |-> lb \cup {label}, deleted |-> dl \ {label}, ok |-> TRUE]

\* delete_many marking nothing.
DeleteManyNothing(lb, dl, ids) == [labels |-> lb, deleted |-> dl]

\* VectorIndex.delete_many(labels) -> mark_deleted for each, errors ignored.
DeleteMany(lb, dl, ids) == [labels |-> lb \ ids, deleted |-> dl \cup (lb \cap ids)]

\* ---------------------------------------------------------------- _index_one
\* create_app(enable_clip=True): an embedder and a vector index are configured.
EmbedderConfigured == TRUE

\* needs_embedding, as decided from the row read by the SELECT.
NeedsEmbedding(existing, lb) ==
    IF EmbedderConfigured /\ existing # None
    THEN LET has_model_embedding == existing[1].embedding_model = ModelId IN
         IF ~has_model_embedding THEN TRUE
         ELSE HasLabelCallable /\ existing[1].id \notin lb
    ELSE FALSE

\* needs_thumb without the look at the thumbnail file.
NeedsThumbAlways(existing, th) == existing # None

\* needs_thumb: the thumbnail file of a known photo id does not exist.
NeedsThumb(existing, th) == existing # None /\ existing[1].id \notin th

\* unchanged: a row exists and its (size, mtime) equals the file's.
Unchanged(existing, st) == existing # None /\ existing[1].sig = st

\* The first half of _index_one: stat the file, read the row, decide.
IndexRead(task, files, db, th, lb) ==
    LET st == files[task.photo_path]
        existing == SelectByPath(db, task.photo_path)
    IN [task |-> task, st |-> st, existing |-> existing,
        unchanged |-> Unchanged(existing, st),
        needs_embedding |-> NeedsEmbedding(existing, lb),
        needs_thumb |-> NeedsThumb(existing, th)]

\* _recent_ingest.append(...), cut to the last _recent_max entries.
RecentAppend(rc, path) ==
    LET s == Append(rc, path) IN
    IF Len(s) > recent_max THEN SubSeq(s, Len(s) - recent_max + 1, Len(s)) ELSE s

\* What one run of _index_one leaves behind. ok is FALSE when it raised; wrote
\* tells whether any statement that writes (catalog, thumbnail file, vector index,
\* history) was carried out.
Result(db, th, lb, dl, rc, ok, wrote) ==
    [photos |-> db, thumbs |-> th, labels |-> lb, deleted |-> dl, recent |-> rc,
     ok |-> ok, wrote |-> wrote]

\* ensure_thumbnail + UPDATE photos SET width, height (only when a thumbnail was made).
ThumbStep(db, th, id, thumb_ok) ==
    IF thumb_ok
    THEN [photos |-> UpdateWidthHeight(db, id), thumbs |-> th \cup {id}, wrote |-> TRUE]
    ELSE [photos |-> db, thumbs |-> th, wrote |-> FALSE]

\* embed_image, add_or_update, UPDATE photos SET embedding_dim, embedding_model:
\* the row is written only after add_or_update returned.
EmbedStep(db, th, lb, dl, rc, id, embed_ok, revive, wrote) ==
    IF ~embed_ok THEN Result(db, th, lb, dl, rc, FALSE, wrote)
    ELSE LET v == AddOrUpdate(lb, dl, id, revive) IN
         IF ~v.ok THEN Result(db, th, lb, dl, rc, FALSE, wrote)
         ELSE Result(UpdateEmbedding(db, id), th, v.labels, v.deleted, rc, TRUE, TRUE)

\* The full path of _index_one: metadata upsert, thumbnail, embedding, history.
FullIngest(ai, db, roots, th, lb, dl, rc, thumb_ok, embed_ok, revive) ==
    LET task == ai.task
        ins == IF ai.existing # None
               THEN [ok |-> TRUE, db |-> UpdateMeta(db, ai.existing[1].id, ai.st)]
               ELSE InsertPhoto(db, roots, task.root_id, task.photo_path, ai.st)
    IN IF ~ins.ok THEN Result(db, th, lb, dl, rc, FALSE, FALSE)
       ELSE LET photo_id == IF ai.existing # None THEN ai.existing[1].id
                            ELSE NextRowId({p.id : p \in db})
                t == ThumbStep(ins.db, th, photo_id, thumb_ok)
                e == IF EmbedderConfigured
                     THEN EmbedStep(t.photos, t.thumbs, lb, dl, rc, photo_id, embed_ok,
                                    revive, TRUE)
                     ELSE Result(t.photos, t.thumbs, lb, dl, rc, TRUE, TRUE)
            IN IF ~e.ok THEN e
               ELSE Result(e.photos, e.thumbs, e.labels, e.deleted,
                           RecentAppend(rc, task.photo_path), TRUE, TRUE)

\* The second half of _index_one, from the decisions of IndexRead. st = 0: the
\* file could not be stat'ed while the root path exists, and the task ends.
IndexWrite(ai, db, roots, th, lb, dl, rc, thumb_ok, embed_ok, revive) ==
    IF ai.st = 0 THEN Result(db, th, lb, dl, rc, TRUE, FALSE)
    ELSE IF ai.unchanged /\ ~ai.needs_embedding /\ ~ai.needs_thumb
    THEN Result(db, th, lb, dl, rc, TRUE, FALSE)
    ELSE IF ai.unchanged /\ ai.needs_thumb /\ ~ai.needs_embedding
    THEN LET t == ThumbStep(db, th, ai.existing[1].id, thumb_ok) IN
         Result(t.photos, t.thumbs, lb, dl, rc, TRUE, t.wrote)
    ELSE IF ai.unchanged /\ ai.needs_embedding
    THEN LET t == IF ai.needs_thumb THEN ThumbStep(db, th, ai.existing[1].id, thumb_ok)
                  ELSE [photos |-> db, thumbs |-> th, wrote |-> FALSE]
         IN EmbedStep(t.photos, t.thumbs, lb, dl, rc, ai.existing[1].id, embed_ok,
                      revive, t.wrote)
    ELSE FullIngest(ai, db, roots, th, lb, dl, rc, thumb_ok, embed_ok, revive)

\* ---------------------------------------------------------------- tasks, progress
\* IndexTask(photo_path, root_id, root_path): root_path is DirOf(photo_path) here.
\* origin is bookkeeping the program does not keep: who offered the task ("scan":
\* the scan whose progress record is current for root_id, "prior_scan": an earlier
\* scan of root_id, "watcher", "catchup").
IndexTask(photo_path, root_id, origin) ==
    [photo_path |-> photo_path, root_id |-> root_id, origin |-> origin]
\* ScanTask(root_id, root_path)
ScanTask(root_id, root_path) == [root_id |-> root_id, root_path |-> root_path]

\* The record _run_scans stores in _scan_progress[task.root_id] when a scan starts.
NewProgress ==
    [found |-> 0, enqueued |-> 0, processed |-> 0, scan_done |-> FALSE, had_errors |-> FALSE]

\* A task offered by a scan of root_id that is no longer the current one.
Outdate(task, root_id) ==
    IF task.root_id = root_id /\ task.origin = "scan"
    THEN [task EXCEPT !.origin = "prior_scan"] ELSE task
OutdateSeq(s, root_id) == [i \in 1..Len(s) |-> Outdate(s[i], root_id)]

\* _maybe_mark_scan_finished with `proc <= enq` as its last early return.
MaybeMarkWhenAhead(roots, progress, root_id) ==
    IF root_id \in DOMAIN progress /\ root_id \in DOMAIN roots
       /\ progress[root_id].scan_done /\ ~progress[root_id].had_errors
       /\ progress[root_id].processed > progress[root_id].enqueued
    THEN [roots EXCEPT ![root_id].scan_finished = "current"]
    ELSE roots

\* _maybe_mark_scan_finished(root_id): the tracked_roots table afterwards.
\* scan_finished is "never" (last_scan_finished_at IS NULL), "stale" (older than
\* last_scan_started_at) or "current" (written since the last scan started);
\* scan_started is last_scan_started_at IS NOT NULL.
MaybeMarkScanFinished(roots, progress, root_id) ==
    IF root_id \notin DOMAIN progress THEN roots
    ELSE LET prog == progress[root_id] IN
         IF ~prog.scan_done THEN roots
         ELSE IF prog.had_errors THEN roots
         ELSE IF prog.processed < prog.enqueued THEN roots
         ELSE IF root_id \in DOMAIN roots
         THEN [roots EXCEPT ![root_id].scan_finished = "current"]
         ELSE roots

\* UPDATE tracked_roots SET last_scan_started_at=datetime('now') WHERE id=?: a
\* last_scan_finished_at written before is now the older of the two.
MarkScanStarted(roots, root_id) ==
    IF root_id \notin DOMAIN roots THEN roots
    ELSE [roots EXCEPT ![root_id].scan_started = TRUE,
                       ![root_id].scan_finished = IF @ = "current" THEN "stale" ELSE @]

\* ---------------------------------------------------------------- initial state
\* The threads and the queues before the first request.
WorkersIdle ==
    /\ fs = [p \in Paths |-> 1]
    /\ q = <<>>
    /\ scan_q = <<>>
    /\ stop = FALSE
    /\ scan_progress = <<>>
    /\ active_scan = None
    /\ active_ingest = None
    /\ second_ingest = None
    /\ watcher_blocked = None
    /\ scan_blocked = None
    /\ search_missing = None
    /\ recent_ingest = <<>>
    /\ scans = 0
    /\ events = 0

\* The pipeline before its first request: an empty catalog.
PipelineInit ==
    /\ tracked_roots = <<>>
    /\ photos = {}
    /\ thumbs = {}
    /\ WorkersIdle

\* The vector index of a first run: an empty index directory, nothing loaded.
IndexInit ==
    /\ labels = {}
    /\ deleted_labels = {}
    /\ loaded = FALSE
    /\ max_elements = 0
    /\ config = [dim |-> ClipDim, model_id |-> ModelId]
    /\ hnswlib = TRUE
    /\ bin_path = None
    /\ meta_path = None

\* The web layer before its first page request.
WebInit ==
    /\ embedder = "ok"
    /\ now = [date |-> FirstDay, hour |-> 0]
    /\ response = NoResponse

\* No call of _pick_relevance_split.
SplitInit ==
    /\ split_scores = <<>>
    /\ split_n = None

\* No failure recorded, no thread inside _maybe_mark_scan_finished.
WorkerInit ==
    /\ failed_total = 0
    /\ last_failed = None
    /\ ingest_mark = None
    /\ scan_mark = None

\* The parts exercised on their own are not in use.
SideInit ==
    /\ limiter = None
    /\ threads = None
    /\ flush = None
    /\ scan_wave = None
    /\ monitor = None

Init ==
    /\ PipelineInit
    /\ IndexInit
    /\ WebInit
    /\ SplitInit
    /\ WorkerInit
    /\ SideInit
    /\ observed = "none"

\* ---------------------------------------------------------------- web layer
RootIdOfPath(roots, dir) == {r \in DOMAIN roots : roots[r].path = dir}

\* roots_add -> _add_root_and_scan: INSERT OR IGNORE INTO tracked_roots, then
\* enqueue_scan_root, which puts the ScanTask or waits while the scan queue is full.
RootsAdd(dir) ==
    /\ ~stop
    /\ scans < MaxScans
    /\ scan_blocked = None
    /\ LET roots1 == IF RootIdOfPath(tracked_roots, dir) # {} THEN tracked_roots
                     ELSE With(tracked_roots, NextRowId(DOMAIN tracked_roots),
                               [path |-> dir, scan_started |-> FALSE,
                                scan_finished |-> "never"])
           root_id == CHOOSE r \in RootIdOfPath(roots1, dir) : TRUE
           task == ScanTask(root_id, dir)
       IN /\ tracked_roots' = roots1
          /\ IF QueueFull(scan_q, ScanQueueMaxsize)
             THEN /\ scan_blocked' = Some(task)
                  /\ scan_q' = scan_q
             ELSE /\ scan_blocked' = None
                  /\ scan_q' = EnqueueScanRoot(scan_q, task, stop)
    /\ scans' = scans + 1
    /\ observed' = "none"
    /\ UNCHANGED <<unit_state, photos, thumbs, labels, deleted_labels, fs, q, stop, scan_progress,
                   active_scan, active_ingest, watcher_blocked, search_missing,
                   recent_ingest, events, second_ingest>>

\* enqueue_scan_root(), the waiting request: the put succeeds once there is room;
\* the loop ends without a put when _stop is set.
ScanRootEnqueue ==
    /\ scan_blocked # None
    /\ EnqueueReturns(scan_q, ScanQueueMaxsize, stop)
    /\ scan_q' = EnqueueScanRoot(scan_q, scan_blocked[1], stop)
    /\ scan_blocked' = None
    /\ observed' = "none"
    /\ UNCHANGED <<unit_state, tracked_roots, photos, thumbs, labels, deleted_labels, fs, q, stop,
                   scan_progress, active_scan, active_ingest, watcher_blocked,
                   search_missing, recent_ingest, scans, events, second_ingest>>

\* roots_remove: DELETE FROM tracked_roots WHERE id=? in one transaction; the
\* photos of the root go with it (ON DELETE CASCADE).
RootsRemove(root_id) ==
    /\ ~stop
    /\ events < MaxEvents
    /\ root_id \in DOMAIN tracked_roots
    /\ tracked_roots' = Without(tracked_roots, root_id)
    /\ photos' = DeleteRootCascade(photos, root_id)
    /\ events' = events + 1
    /\ observed' = "none"
    /\ UNCHANGED <<unit_state, thumbs, labels, deleted_labels, fs, q, scan_q, stop, scan_progress,
                   active_scan, active_ingest, watcher_blocked, search_missing,
                   recent_ingest, scans, second_ingest, scan_blocked>>

\* _library_rows, non-empty query: vector_index.search returns the live labels; the
\* ids among them that are not in photos are missing_ids.
SearchBegin ==
    /\ ~stop
    /\ search_missing = None
    /\ labels \ PhotoIds # {}
    /\ search_missing' = Some(labels \ PhotoIds)
    /\ observed' = "none"
    /\ UNCHANGED <<unit_state, tracked_roots, photos, thumbs, labels, deleted_labels, fs, q, scan_q,
                   stop, scan_progress, active_scan, active_ingest, watcher_blocked,
                   recent_ingest, events, scans, second_ingest, scan_blocked>>

\* _library_rows: vector_index.delete_many(missing_ids).
SearchPrune ==
    /\ search_missing # None
    /\ LET d == DeleteMany(labels, deleted_labels, search_missing[1]) IN
       /\ labels' = d.labels
       /\ deleted_labels' = d.deleted
    /\ search_missing' = None
    /\ observed' = "none"
    /\ UNCHANGED <<unit_state, tracked_roots, photos, thumbs, fs, q, scan_q, stop, scan_progress,
                   active_scan, active_ingest, watcher_blocked, recent_ingest, events, scans, second_ingest, scan_blocked>>

\* ---------------------------------------------------------------- producers
\* The watcher callback: indexer.enqueue(IndexTask(p, rid, root path)) for a file
\* event below a watched root. enqueue() puts, or waits while the queue is full.
WatcherEvent(path) ==
    /\ ~stop
    /\ events < MaxEvents
    /\ watcher_blocked = None
    /\ fs[path] # 0
    /\ RootIdOfPath(tracked_roots, DirOf(path)) # {}
    /\ LET root_id == CHOOSE r \in RootIdOfPath(tracked_roots, DirOf(path)) : TRUE
           task == IndexTask(path, root_id, "watcher")
       IN IF QueueFull(q, IngestQueueMaxsize)
          THEN /\ watcher_blocked' = Some(task)
               /\ q' = q
          ELSE /\ watcher_blocked' = None
               /\ q' = Enqueue(q, task, stop)
    /\ events' = events + 1
    /\ observed' = "none"
    /\ UNCHANGED <<unit_state, tracked_roots, photos, thumbs, labels, deleted_labels, fs, scan_q, stop,
                   scan_progress, active_scan, active_ingest, search_missing,
                   recent_ingest, scans, second_ingest, scan_blocked>>

\* enqueue(), the waiting watcher callback: the put succeeds once there is room; the
\* loop ends without a put when _stop is set.
WatcherEnqueue ==
    /\ watcher_blocked # None
    /\ EnqueueReturns(q, IngestQueueMaxsize, stop)
    /\ q' = Enqueue(q, watcher_blocked[1], stop)
    /\ watcher_blocked' = None
    /\ observed' = "none"
    /\ UNCHANGED <<unit_state, tracked_roots, photos, thumbs, labels, deleted_labels, fs, scan_q, stop,
                   scan_progress, active_scan, active_ingest, search_missing,
                   recent_ingest, events, scans, second_ingest, scan_blocked>>

\* enqueue_missing_embeddings(model_id): the photos whose embedding_model is not the
\* active model, in id order, each put_nowait; the loop breaks at the first Full.
MissingEmbeddings(db) == OrderById({p \in db : p.embedding_model # ModelId})
CatchUp ==
    /\ ~stop
    /\ events < MaxEvents
    /\ MissingEmbeddings(photos) # <<>>
    /\ LET rows == MissingEmbeddings(photos)
           room == IF IngestQueueMaxsize > 0
                   THEN Max(0, IngestQueueMaxsize - Len(q)) ELSE Len(rows)
           n == Min(room, Len(rows))
       IN /\ q' = q \o [i \in 1..n |-> IndexTask(rows[i].path, rows[i].root_id, "catchup")]
          /\ observed' = IF n < Len(rows) THEN "dropped" ELSE "placed"
    /\ events' = events + 1
    /\ UNCHANGED <<unit_state, tracked_roots, photos, thumbs, labels, deleted_labels, fs, scan_q, stop,
                   scan_progress, active_scan, active_ingest, watcher_blocked,
                   search_missing, recent_ingest, scans, second_ingest, scan_blocked>>

\* ---------------------------------------------------------------- scanner thread
\* _run_scans, from the get to the start of the walk: the progress record of the
\* root is replaced, last_scan_started_at is written.
ScanGet ==
    /\ ~stop
    /\ active_scan = None
    /\ scan_q # <<>>
    /\ LET task == Head(scan_q) IN
       /\ scan_q' = Tail(scan_q)
       /\ scan_progress' = With(scan_progress, task.root_id, NewProgress)
       /\ tracked_roots' = MarkScanStarted(tracked_roots, task.root_id)
       /\ active_scan' = Some([task |-> task,
                               todo |-> SelectSeq(WalkOrder(task.root_path),
                                                  LAMBDA p : fs[p] # 0)])
       /\ q' = OutdateSeq(q, task.root_id)
       /\ active_ingest' = IF active_ingest = None THEN None
                           ELSE Some([active_ingest[1] EXCEPT
                                      !.task = Outdate(@, task.root_id)])
    /\ observed' = "none"
    /\ UNCHANGED <<unit_state, photos, thumbs, labels, deleted_labels, fs, stop, watcher_blocked,
                   search_missing, recent_ingest, events, scans, second_ingest, scan_blocked>>

\* _run_scans, one turn of the loop over iter_images_recursive: found += 1,
\* enqueue(IndexTask) (waiting while the queue is full, giving up when _stop is
\* set), enqueued += 1.
ScanStep ==
    /\ active_scan # None
    /\ active_scan[1].todo # <<>>
    /\ EnqueueReturns(q, IngestQueueMaxsize, stop)
    /\ LET task == active_scan[1].task
           root_id == task.root_id
           prog == scan_progress[root_id]
       IN /\ q' = Enqueue(q, IndexTask(Head(active_scan[1].todo), root_id, "scan"), stop)
          /\ scan_progress' = [scan_progress EXCEPT
                                 ![root_id].found = prog.found + 1,
                                 ![root_id].enqueued = prog.enqueued + 1]
          /\ active_scan' = Some([active_scan[1] EXCEPT !.todo = Tail(@)])
    /\ observed' = "none"
    /\ UNCHANGED <<unit_state, tracked_roots, photos, thumbs, labels, deleted_labels, fs, scan_q, stop,
                   active_ingest, watcher_blocked, search_missing, recent_ingest,
                   events, scans, second_ingest, scan_blocked>>

\* _run_scans, after the walk: last_scan_enumerated_at, scan_done = True,
\* _maybe_mark_scan_finished, and the finally block.
ScanEnd ==
    /\ active_scan # None
    /\ active_scan[1].todo = <<>>
    /\ LET root_id == active_scan[1].task.root_id
           progress1 == [scan_progress EXCEPT ![root_id].scan_done = TRUE]
       IN /\ scan_progress' = progress1
          /\ tracked_roots' = MaybeMarkScanFinished(tracked_roots, progress1, root_id)
    /\ active_scan' = None
    /\ observed' = "none"
    /\ UNCHANGED <<unit_state, photos, thumbs, labels, deleted_labels, fs, q, scan_q, stop,
                   active_ingest, watcher_blocked, search_missing, recent_ingest,
                   events, scans, second_ingest, scan_blocked>>

\* ---------------------------------------------------------------- ingest thread
\* _run: the get, then _index_one up to its decisions.
IngestGet ==
    /\ ~stop
    /\ active_ingest = None
    /\ q # <<>>
    /\ active_ingest' = Some(IndexRead(Head(q), fs, photos, thumbs, labels))
    /\ q' = Tail(q)
    /\ observed' = "none"
    /\ UNCHANGED <<unit_state, tracked_roots, photos, thumbs, labels, deleted_labels, fs, scan_q, stop,
                   scan_progress, active_scan, watcher_blocked, search_missing,
                   recent_ingest, events, scans, second_ingest, scan_blocked>>

\* _run after _index_one returned: processed += 1 for the root's progress record.
CountProcessed(progress, root_id) ==
    IF root_id \in DOMAIN progress
    THEN [progress EXCEPT ![root_id].processed = @ + 1]
    ELSE progress
\* _run after _index_one raised: had_errors = True for the root's progress record.
FlagErrors(progress, root_id) ==
    IF root_id \in DOMAIN progress
    THEN [progress EXCEPT ![root_id].had_errors = TRUE]
    ELSE progress

\* _run: the writes of _index_one, then the bookkeeping of its outcome.
IngestFinish(thumb_ok, embed_ok, revive) ==
    /\ active_ingest # None
    /\ LET ai == active_ingest[1]
           root_id == ai.task.root_id
           r == IndexWrite(ai, photos, tracked_roots, thumbs, labels, deleted_labels,
                           recent_ingest, thumb_ok, embed_ok, revive)
           progress1 == IF r.ok THEN CountProcessed(scan_progress, root_id)
                        ELSE FlagErrors(scan_progress, root_id)
       IN /\ photos' = r.photos
          /\ thumbs' = r.thumbs
          /\ labels' = r.labels
          /\ deleted_labels' = r.deleted
          /\ recent_ingest' = r.recent
          /\ observed' = IF r.ok /\ ~r.wrote THEN "noop" ELSE "none"
          /\ scan_progress' = progress1
          /\ tracked_roots' = IF r.ok
                              THEN MaybeMarkScanFinished(tracked_roots, progress1, root_id)
                              ELSE tracked_roots
    /\ active_ingest' = None
    /\ UNCHANGED <<unit_state, fs, q, scan_q, stop, active_scan, watcher_blocked, search_missing,
                   events, scans, second_ingest, scan_blocked>>

\* ---------------------------------------------------------------- environment
\* PhotoIndexer.stop(): _stop.set().
Stop ==
    /\ ~stop
    /\ stop' = TRUE
    /\ observed' = "none"
    /\ UNCHANGED <<unit_state, tracked_roots, photos, thumbs, labels, deleted_labels, fs, q, scan_q,
                   scan_progress, active_scan, active_ingest, watcher_blocked,
                   search_missing, recent_ingest, events, scans, second_ingest, scan_blocked>>

\* A file is rewritten: its (size, mtime) changes.
FsRewrite(path) ==
    /\ events < MaxEvents
    /\ fs[path] # 0
    /\ fs' = [fs EXCEPT ![path] = IF @ = 1 THEN 2 ELSE 1]
    /\ events' = events + 1
    /\ observed' = "none"
    /\ UNCHANGED <<unit_state, tracked_roots, photos, thumbs, labels, deleted_labels, q, scan_q, stop,
                   scan_progress, active_scan, active_ingest, watcher_blocked,
                   search_missing, recent_ingest, scans, second_ingest, scan_blocked>>

\* A thumbnail file is deleted from the thumbnail directory.
ThumbLost(id) ==
    /\ events < MaxEvents
    /\ id \in thumbs
    /\ thumbs' = thumbs \ {id}
    /\ events' = events + 1
    /\ observed' = "none"
    /\ UNCHANGED <<unit_state, tracked_roots, photos, labels, deleted_labels, fs, q, scan_q, stop,
                   scan_progress, active_scan, active_ingest, watcher_blocked,
                   search_missing, recent_ingest, scans, second_ingest, scan_blocked>>

Next ==
    \/ \E dir \in Dirs : RootsAdd(dir)
    \/ ScanRootEnqueue
    \/ \E root_id \in DOMAIN tracked_roots : RootsRemove(root_id)
    \/ SearchBegin
    \/ SearchPrune
    \/ \E path \in Paths : WatcherEvent(path)
    \/ WatcherEnqueue
    \/ CatchUp
    \/ ScanGet
    \/ ScanStep
    \/ ScanEnd
    \/ IngestGet
    \/ \E thumb_ok, embed_ok, revive \in BOOLEAN : IngestFinish(thumb_ok, embed_ok, revive)
    \/ Stop
    \/ \E path \in Paths : FsRewrite(path)
    \/ \E id \in thumbs : ThumbLost(id)

Spec == Init /\ [][Next]_vars

\* The threads of the program keep running: the ingest thread takes the next task
\* and finishes the one it holds, the scanner thread takes the next scan and ends
\* the one it runs, and a producer waiting in enqueue() gets its turn when room
\* comes up again and again.
Fairness ==
    /\ WF_vars(IngestGet)
    /\ WF_vars(\E thumb_ok, embed_ok, revive \in BOOLEAN : IngestFinish(thumb_ok, embed_ok, revive))
    /\ WF_vars(ScanGet)
    /\ WF_vars(ScanEnd)
    /\ SF_vars(ScanStep)
    /\ SF_vars(WatcherEnqueue)
    /\ SF_vars(ScanRootEnqueue)
FairSpec == Init /\ [][Next]_vars /\ Fairness

\* ---------------------------------------------------------------- two executions
\* A second execution of _index_one(IndexTask(path, root id, root path)) against the
\* same catalog, thumbnail directory and index, interleaved with the ingest thread:
\* its reads and decisions ...
SecondGet(path) ==
    /\ second_ingest = None
    /\ fs[path] # 0
    /\ RootIdOfPath(tracked_roots, DirOf(path)) # {}
    /\ LET root_id == CHOOSE r \in RootIdOfPath(tracked_roots, DirOf(path)) : TRUE IN
       second_ingest' = Some(IndexRead(IndexTask(path, root_id, "watcher"),
                                       fs, photos, thumbs, labels))
    /\ observed' = "none"
    /\ UNCHANGED <<unit_state, tracked_roots, photos, thumbs, labels, deleted_labels, fs, q, scan_q,
                   stop, scan_progress, active_scan, active_ingest, watcher_blocked,
                   search_missing, recent_ingest, scans, events, scan_blocked>>

\* ... and its writes.
SecondFinish(thumb_ok, embed_ok, revive) ==
    /\ second_ingest # None
    /\ LET r == IndexWrite(second_ingest[1], photos, tracked_roots, thumbs, labels,
                           deleted_labels, recent_ingest, thumb_ok, embed_ok, revive)
       IN /\ photos' = r.photos
          /\ thumbs' = r.thumbs
          /\ labels' = r.labels
          /\ deleted_labels' = r.deleted
          /\ recent_ingest' = r.recent
    /\ second_ingest' = None
    /\ observed' = "none"
    /\ UNCHANGED <<unit_state, tracked_roots, fs, q, scan_q, stop, scan_progress, active_scan,
                   active_ingest, watcher_blocked, search_missing, scans, events, scan_blocked>>

ConcurrentNext ==
    \/ \E dir \in Dirs : RootsAdd(dir)
    \/ ScanRootEnqueue
    \/ ScanGet
    \/ ScanStep
    \/ ScanEnd
    \/ IngestGet
    \/ \E thumb_ok, embed_ok, revive \in BOOLEAN : IngestFinish(thumb_ok, embed_ok, revive)
    \/ \E path \in Paths : SecondGet(path)
    \/ \E thumb_ok, embed_ok, revive \in BOOLEAN : SecondFinish(thumb_ok, embed_ok, revive)

ConcurrentSpec == Init /\ [][ConcurrentNext]_vars

\* ================================================================ worker loops
\* _run and _run_scans followed step by step: what they do when a task raises, and
\* _maybe_mark_scan_finished as its two parts, the checks under _stats_lock and the
\* UPDATE after the lock is released.

\* _record_failure(root_id, path, error) without adding to _failed_total.
RecordFailureUncounted(total, root_id, path) ==
    [failed_total |-> total, last_failed |-> Some([path |-> path, root_id |-> root_id])]
\* _record_failure(root_id, path, error): _failed_total and _last_failed afterwards.
RecordFailure(total, root_id, path) ==
    [failed_total |-> total + 1, last_failed |-> Some([path |-> path, root_id |-> root_id])]

\* _maybe_mark_scan_finished(root_id) up to its UPDATE: the values read under
\* _stats_lock pass the three early returns.
WillMark(progress, root_id) ==
    /\ root_id \in DOMAIN progress
    /\ progress[root_id].scan_done
    /\ ~progress[root_id].had_errors
    /\ progress[root_id].processed >= progress[root_id].enqueued
\* UPDATE tracked_roots SET last_scan_finished_at=datetime('now') WHERE id=?
WriteScanFinished(roots, root_id) ==
    IF root_id \in DOMAIN roots
    THEN [roots EXCEPT ![root_id].scan_finished = "current"]
    ELSE roots

\* prog["current_path"], or task.root_path before the first image was found.
CurrentPath(progress, task) ==
    IF task.root_id \in DOMAIN progress /\ progress[task.root_id].found > 0
    THEN WalkOrder(task.root_path)[progress[task.root_id].found]
    ELSE task.root_path

\* _run after the get: _index_one, then processed += 1 and the checks of
\* _maybe_mark_scan_finished, or the except block when _index_one raised; with
\* nothing to write the finally block follows at once.
IngestIndexed(thumb_ok, embed_ok, revive) ==
    /\ active_ingest # None
    /\ ingest_mark = None
    /\ LET ai == active_ingest[1]
           root_id == ai.task.root_id
           r == IndexWrite(ai, photos, tracked_roots, thumbs, labels, deleted_labels,
                           recent_ingest, thumb_ok, embed_ok, revive)
           f == RecordFailure(failed_total, root_id, ai.task.photo_path)
           progress1 == IF r.ok THEN CountProcessed(scan_progress, root_id)
                        ELSE FlagErrors(scan_progress, root_id)
       IN /\ r.ok \/ failed_total < MaxFailed
          /\ photos' = r.photos
          /\ thumbs' = r.thumbs
          /\ labels' = r.labels
          /\ deleted_labels' = r.deleted
          /\ recent_ingest' = r.recent
          /\ scan_progress' = progress1
          /\ failed_total' = IF r.ok THEN failed_total ELSE f.failed_total
          /\ last_failed' = IF r.ok THEN last_failed ELSE f.last_failed
          /\ ingest_mark' = IF r.ok /\ WillMark(progress1, root_id) THEN Some(root_id)
                            ELSE None
          /\ active_ingest' = IF r.ok /\ WillMark(progress1, root_id) THEN active_ingest
                              ELSE None
          /\ observed' = IF r.ok THEN "ok" ELSE "raised"
    /\ UNCHANGED <<index_state, web_state, split_state, side_state, scan_mark, tracked_roots, fs, q,
                   scan_q, stop, active_scan, watcher_blocked, search_missing, events,
                   scans, second_ingest, scan_blocked>>

\* _run: the UPDATE of _maybe_mark_scan_finished, then the finally block.
IngestMark ==
    /\ ingest_mark # None
    /\ tracked_roots' = WriteScanFinished(tracked_roots, ingest_mark[1])
    /\ ingest_mark' = None
    /\ active_ingest' = None
    /\ observed' = "none"
    /\ UNCHANGED <<index_state, web_state, split_state, side_state, failed_total, last_failed,
                   scan_mark, photos, thumbs, labels, deleted_labels, fs, q, scan_q,
                   stop, scan_progress, active_scan, watcher_blocked, search_missing,
                   recent_ingest, events, scans, second_ingest, scan_blocked>>

\* _on_scan_error: os.walk could not list a directory of the root; the walk goes on.
ScanError ==
    /\ active_scan # None
    /\ scan_mark = None
    /\ failed_total < MaxFailed
    /\ LET task == active_scan[1].task
           f == RecordFailure(failed_total, task.root_id, task.root_path)
       IN /\ scan_progress' = FlagErrors(scan_progress, task.root_id)
          /\ failed_total' = f.failed_total
          /\ last_failed' = f.last_failed
    /\ observed' = "raised"
    /\ UNCHANGED <<index_state, web_state, split_state, side_state, ingest_mark, scan_mark,
                   tracked_roots, photos, thumbs, labels, deleted_labels, fs, q, scan_q,
                   stop, active_scan, active_ingest, watcher_blocked, search_missing,
                   recent_ingest, events, scans, second_ingest, scan_blocked>>

\* _run_scans: the scan raises (the root path is unavailable, a statement fails);
\* the except block, then the finally block.
ScanFail ==
    /\ active_scan # None
    /\ scan_mark = None
    /\ failed_total < MaxFailed
    /\ LET task == active_scan[1].task
           f == RecordFailure(failed_total, task.root_id, CurrentPath(scan_progress, task))
       IN /\ scan_progress' = FlagErrors(scan_progress, task.root_id)
          /\ failed_total' = f.failed_total
          /\ last_failed' = f.last_failed
    /\ active_scan' = None
    /\ observed' = "raised"
    /\ UNCHANGED <<index_state, web_state, split_state, side_state, ingest_mark, scan_mark,
                   tracked_roots, photos, thumbs, labels, deleted_labels, fs, q, scan_q,
                   stop, active_ingest, watcher_blocked, search_missing, recent_ingest,
                   events, scans, second_ingest, scan_blocked>>

\* _run_scans after the walk: scan_done = True and the checks of
\* _maybe_mark_scan_finished; with nothing to write the finally block follows.
ScanEnumerated ==
    /\ active_scan # None
    /\ active_scan[1].todo = <<>>
    /\ scan_mark = None
    /\ LET root_id == active_scan[1].task.root_id
           progress1 == [scan_progress EXCEPT ![root_id].scan_done = TRUE]
       IN /\ scan_progress' = progress1
          /\ scan_mark' = IF WillMark(progress1, root_id) THEN Some(root_id) ELSE None
          /\ active_scan' = IF WillMark(progress1, root_id) THEN active_scan ELSE None
    /\ observed' = "none"
    /\ UNCHANGED <<index_state, web_state, split_state, side_state, failed_total, last_failed,
                   ingest_mark, tracked_roots, photos, thumbs, labels, deleted_labels,
                   fs, q, scan_q, stop, active_ingest, watcher_blocked, search_missing,
                   recent_ingest, events, scans, second_ingest, scan_blocked>>

\* _run_scans: the UPDATE of _maybe_mark_scan_finished, then the finally block.
ScanMark ==
    /\ scan_mark # None
    /\ tracked_roots' = WriteScanFinished(tracked_roots, scan_mark[1])
    /\ scan_mark' = None
    /\ active_scan' = None
    /\ observed' = "none"
    /\ UNCHANGED <<index_state, web_state, split_state, side_state, failed_total, last_failed,
                   ingest_mark, photos, thumbs, labels, deleted_labels, fs, q, scan_q,
                   stop, scan_progress, active_ingest, watcher_blocked, search_missing,
                   recent_ingest, events, scans, second_ingest, scan_blocked>>

\* The two threads and the requests that give them work.
LoopNext ==
    \/ \E dir \in Dirs : RootsAdd(dir)
    \/ ScanRootEnqueue
    \/ ScanGet
    \/ ScanStep
    \/ ScanError
    \/ ScanFail
    \/ ScanEnumerated
    \/ ScanMark
    \/ IngestGet
    \/ \E embed_ok \in BOOLEAN : IngestIndexed(TRUE, embed_ok, TRUE)
    \/ IngestMark
    \/ Stop

\* The same with the watcher and with files that change.
WorkerNext ==
    \/ LoopNext
    \/ \E path \in Paths : WatcherEvent(path)
    \/ WatcherEnqueue
    \/ \E path \in Paths : FsRewrite(path)

WorkerSpec == Init /\ [][WorkerNext]_vars

\* Both threads keep running, and a request waiting in enqueue_scan_root() gets its
\* turn.
WorkerFairness ==
    /\ WF_vars(IngestGet)
    /\ WF_vars(\E embed_ok \in BOOLEAN : IngestIndexed(TRUE, embed_ok, TRUE))
    /\ WF_vars(IngestMark)
    /\ WF_vars(ScanGet)
    /\ WF_vars(ScanEnumerated)
    /\ WF_vars(ScanMark)
    /\ SF_vars(ScanStep)
    /\ SF_vars(ScanRootEnqueue)
FairWorkerSpec == Init /\ [][LoopNext]_vars /\ WorkerFairness

\* ================================================================ vector index
\* VectorIndex on its own: one index directory, used by one process after another.
Labels == 1..MaxLabel
Configs == {[dim |-> ClipDim, model_id |-> ModelId],
            [dim |-> OtherDim, model_id |-> OtherModelId]}

\* _default_max_elements: max(10_000, int(PHOTOBROWSE_MAX_ELEMENTS)).
DefaultMaxElements == Max(least_max_elements, PHOTOBROWSE_MAX_ELEMENTS)

\* _maybe_resize: `while new_max < min_elements: new_max *= 2`.
RECURSIVE Doubled(_, _)
Doubled(new_max, min_elements) ==
    IF new_max < min_elements THEN Doubled(new_max * 2, min_elements) ELSE new_max

\* _maybe_resize without the doubling loop: the capacity is raised to the default
\* at most.
MaybeResizeToDefault(current_max, min_elements) ==
    IF current_max # 0 /\ current_max >= min_elements THEN current_max
    ELSE Max(DefaultMaxElements, current_max)

\* _maybe_resize(min_elements) on an index of capacity current_max: the capacity
\* afterwards (hnswlib's Index has resize_index).
MaybeResize(current_max, min_elements) ==
    IF current_max # 0 /\ current_max >= min_elements THEN current_max
    ELSE Doubled(Max(DefaultMaxElements, current_max), min_elements)

\* hnswlib get_current_count: every label added, marked deleted or not.
CurrentCount(lb, dl) == Cardinality(lb \cup dl)

\* hnswlib add_items(vec, [label]) on an index of capacity mx: "ok", "limit"
\* (RuntimeError "The number of elements exceeds the specified limit") or "error"
\* (the RuntimeError of re-adding a label marked deleted, see AddOrUpdate).
AddItems(lb, dl, mx, label, revive) ==
    IF label \in dl /\ ~revive THEN "error"
    ELSE IF label \in lb \cup dl THEN "ok"
    ELSE IF CurrentCount(lb, dl) >= mx THEN "limit"
    ELSE "ok"

\* The body of add_or_update after _ensure_loaded: add_items, and on "exceeds the
\* specified limit" _maybe_resize(max(current + 1, default)) and add_items again.
AddOrUpdateSized(lb, dl, mx, label, revive) ==
    LET first == AddItems(lb, dl, mx, label, revive)
        mx1 == IF first = "limit"
               THEN MaybeResize(mx, Max(CurrentCount(lb, dl) + 1, DefaultMaxElements))
               ELSE mx
        second == IF first = "limit" THEN AddItems(lb, dl, mx1, label, revive) ELSE first
        added == AddOrUpdate(lb, dl, label, revive)
    IN IF second = "ok"
       THEN [labels |-> added.labels, deleted |-> added.deleted, max_elements |-> mx1,
             ok |-> TRUE]
       ELSE [labels |-> lb, deleted |-> dl, max_elements |-> mx1, ok |-> FALSE]

\* meta.json as _persist_meta writes it, and what is left of it when the write is
\* cut short (json.loads raises on it).
MetaOf(cfg) == [dim |-> cfg.dim, model_id |-> cfg.model_id, readable |-> TRUE]
TornMeta == [dim |-> 0, model_id |-> "", readable |-> FALSE]
\* hnsw.bin as save_index writes it, and what is left of it when the write is cut
\* short (load_index raises on it).
BlobOf(lb, dl, mx) == [labels |-> lb, deleted |-> dl, max_elements |-> mx,
                       readable |-> TRUE]
TornBlob == [labels |-> {}, deleted |-> {}, max_elements |-> 0, readable |-> FALSE]

\* _ensure_loaded. The record holds the index and the two files afterwards; ok is
\* FALSE when it raises, and it raises before it changes anything. A loaded index
\* keeps the capacity it was saved with: _maybe_resize runs before self._index is
\* set, its assert fails and the failure is passed over.
EnsureLoaded(ld, lb, dl, mx, cfg, lib, bin, meta) ==
    LET same == [ok |-> TRUE, loaded |-> ld, labels |-> lb, deleted |-> dl,
                 max_elements |-> mx, bin |-> bin, meta |-> meta]
        bin1 == IF bin # None /\ meta = None THEN None ELSE bin
        both == bin1 # None /\ meta # None
        mismatch == meta[1].dim # cfg.dim \/ meta[1].model_id # cfg.model_id
        bin2 == IF both /\ mismatch THEN None ELSE bin1
    IN IF ld THEN same
       ELSE IF ~lib THEN [same EXCEPT !.ok = FALSE]
       ELSE IF both /\ ~meta[1].readable THEN [same EXCEPT !.ok = FALSE]
       ELSE IF bin2 = None
       THEN [ok |-> TRUE, loaded |-> TRUE, labels |-> {}, deleted |-> {},
             max_elements |-> DefaultMaxElements, bin |-> bin2,
             meta |-> Some(MetaOf(cfg))]
       ELSE IF ~bin2[1].readable THEN [same EXCEPT !.ok = FALSE]
       ELSE [ok |-> TRUE, loaded |-> TRUE, labels |-> bin2[1].labels,
             deleted |-> bin2[1].deleted, max_elements |-> bin2[1].max_elements,
             bin |-> bin2, meta |-> Some(MetaOf(cfg))]

\* The first step of every method: self._ensure_loaded().
Loaded == EnsureLoaded(loaded, labels, deleted_labels, max_elements, config, hnswlib,
                       bin_path, meta_path)

\* search giving up at the first conflict instead of halving k2.
KnnBreadthGivingUp(live, k2) == IF k2 <= live THEN k2 ELSE 0

\* search(vector, k): k2 = max(1, min(k, current)); knn_query(k=k2) raises "Cannot
\* return the results in a contiguous 2D array" while fewer than k2 labels are live,
\* and k2 is halved; at k2 = 1 the search returns []. The breadth that succeeds:
RECURSIVE KnnBreadth(_, _)
KnnBreadth(live, k2) ==
    IF k2 <= live THEN k2
    ELSE IF k2 <= 1 THEN 0
    ELSE KnnBreadth(live, Max(1, k2 \div 2))
SearchBreadth(lb, dl, k) ==
    IF CurrentCount(lb, dl) <= 0 THEN 0
    ELSE KnnBreadth(Cardinality(lb), Max(1, Min(k, CurrentCount(lb, dl))))

\* The ways a query vector can rank the labels, nearest first.
Orders == {o \in [Labels -> Labels] : \A i, j \in Labels : i # j => o[i] # o[j]}
\* The first n live labels of a ranking.
RECURSIVE Nearest(_, _, _, _)
Nearest(lb, order, i, n) ==
    IF n = 0 \/ i > MaxLabel THEN <<>>
    ELSE IF order[i] \in lb THEN <<order[i]>> \o Nearest(lb, order, i + 1, n - 1)
    ELSE Nearest(lb, order, i + 1, n)
\* search(vector, k) on a loaded index, for a query that ranks the labels by `order`:
\* the labels returned, nearest first.
Search(lb, dl, k, order) == Nearest(lb, order, 1, SearchBreadth(lb, dl, k))

\* add_or_update(label, vector).
IndexAddOrUpdate(label, revive) ==
    LET e == Loaded
        a == AddOrUpdateSized(e.labels, e.deleted, e.max_elements, label, revive)
    IN /\ loaded' = e.loaded
       /\ bin_path' = e.bin
       /\ meta_path' = e.meta
       /\ labels' = IF e.ok THEN a.labels ELSE e.labels
       /\ deleted_labels' = IF e.ok THEN a.deleted ELSE e.deleted
       /\ max_elements' = IF e.ok THEN a.max_elements ELSE e.max_elements
       /\ observed' = IF e.ok /\ a.ok THEN "ok" ELSE "raised"
       /\ UNCHANGED <<pipeline_state, split_state, side_state, worker_state, web_state, config, hnswlib>>

\* delete_many(labels).
IndexDeleteMany(ids) ==
    LET e == Loaded
        d == DeleteMany(e.labels, e.deleted, ids)
    IN /\ loaded' = e.loaded
       /\ bin_path' = e.bin
       /\ meta_path' = e.meta
       /\ labels' = IF e.ok THEN d.labels ELSE e.labels
       /\ deleted_labels' = IF e.ok THEN d.deleted ELSE e.deleted
       /\ max_elements' = e.max_elements
       /\ observed' = IF e.ok THEN "ok" ELSE "raised"
       /\ UNCHANGED <<pipeline_state, split_state, side_state, worker_state, web_state, config, hnswlib>>

\* search(vector, k): the caller gets Search(labels, deleted_labels, k, order) of
\* the loaded index, or the exception of _ensure_loaded.
IndexSearch(k) ==
    LET e == Loaded IN
    /\ loaded' = e.loaded
    /\ bin_path' = e.bin
    /\ meta_path' = e.meta
    /\ labels' = e.labels
    /\ deleted_labels' = e.deleted
    /\ max_elements' = e.max_elements
    /\ observed' = IF e.ok THEN "ok" ELSE "raised"
    /\ UNCHANGED <<pipeline_state, split_state, side_state, worker_state, web_state, config, hnswlib>>

\* persist(): _persist_meta, then save_index.
IndexPersist ==
    LET e == Loaded IN
    /\ loaded' = e.loaded
    /\ labels' = e.labels
    /\ deleted_labels' = e.deleted
    /\ max_elements' = e.max_elements
    /\ meta_path' = IF e.ok THEN Some(MetaOf(config)) ELSE e.meta
    /\ bin_path' = IF e.ok THEN Some(BlobOf(e.labels, e.deleted, e.max_elements))
                   ELSE e.bin
    /\ observed' = IF e.ok THEN "ok" ELSE "raised"
    /\ UNCHANGED <<pipeline_state, split_state, side_state, worker_state, web_state, config, hnswlib>>

\* The process ends and the next one starts, with its own embedder and its own
\* installation: what was in memory is gone, the index directory stays.
Restart(cfg, lib) ==
    /\ loaded' = FALSE
    /\ labels' = {}
    /\ deleted_labels' = {}
    /\ max_elements' = 0
    /\ config' = cfg
    /\ hnswlib' = lib
    /\ observed' = "none"
    /\ UNCHANGED <<pipeline_state, split_state, side_state, worker_state, web_state, bin_path, meta_path>>

\* The process is ended inside _persist_meta's write_text: a cut-short meta.json.
KilledInPersistMeta ==
    /\ loaded
    /\ meta_path' = Some(TornMeta)
    /\ loaded' = FALSE
    /\ labels' = {}
    /\ deleted_labels' = {}
    /\ max_elements' = 0
    /\ observed' = "none"
    /\ UNCHANGED <<pipeline_state, split_state, side_state, worker_state, web_state, config, hnswlib, bin_path>>

\* The process is ended inside persist()'s save_index: meta.json is written, hnsw.bin
\* is cut short.
KilledInSaveIndex ==
    /\ loaded
    /\ meta_path' = Some(MetaOf(config))
    /\ bin_path' = Some(TornBlob)
    /\ loaded' = FALSE
    /\ labels' = {}
    /\ deleted_labels' = {}
    /\ max_elements' = 0
    /\ observed' = "none"
    /\ UNCHANGED <<pipeline_state, split_state, side_state, worker_state, web_state, config, hnswlib>>

\* meta.json is removed from the index directory between two runs.
MetaRemoved ==
    /\ ~loaded
    /\ meta_path # None
    /\ meta_path' = None
    /\ observed' = "none"
    /\ UNCHANGED <<pipeline_state, split_state, side_state, worker_state, web_state, labels, deleted_labels, loaded, max_elements, config,
                   hnswlib, bin_path>>

IndexNext ==
    \/ \E label \in Labels, revive \in BOOLEAN : IndexAddOrUpdate(label, revive)
    \/ \E ids \in SUBSET Labels : IndexDeleteMany(ids)
    \/ \E k \in Labels : IndexSearch(k)
    \/ IndexPersist
    \/ \E cfg \in Configs, lib \in BOOLEAN : Restart(cfg, lib)
    \/ KilledInPersistMeta
    \/ KilledInSaveIndex
    \/ MetaRemoved

IndexSpec == Init /\ [][IndexNext]_vars

\* ================================================================ page requests
\* GET / -> _library_rows on its own: a catalog of three indexed photos below two
\* tracked roots, "Ab" and "zz".
LibraryPaths == {"Ab/cd", "Ab/x/Cd1", "zz/ab"}
\* The characters of a string.
Chars(s) ==
    CASE s = "Ab/cd" -> <<"A", "b", "/", "c", "d">>
      [] s = "Ab/x/Cd1" -> <<"A", "b", "/", "x", "/", "C", "d", "1">>
      [] s = "zz/ab" -> <<"z", "z", "/", "a", "b">>
      [] s = "Ab" -> <<"A", "b">>
      [] s = "zz" -> <<"z", "z">>
      [] s = "ab" -> <<"a", "b">>
      [] s = "AB cd" -> <<"A", "B", " ", "c", "d">>
      [] s = "zz cd" -> <<"z", "z", " ", "c", "d">>
      [] s = "b c" -> <<"b", " ", "c">>
      [] s = "zz zz zz zz zz zz zz zz cd" ->
             <<"z", "z", " ", "z", "z", " ", "z", "z", " ", "z", "z", " ", "z", "z", " ",
               "z", "z", " ", "z", "z", " ", "z", "z", " ", "c", "d">>
      [] s = " " -> <<" ">>
      [] s = "" -> <<>>
LibraryRootOf(path) == IF path = "zz/ab" THEN "zz" ELSE "Ab"
LibraryRootId(path) == IF path = "zz/ab" THEN 2 ELSE 1
\* The row id of each photo, and photos.date_taken as yyyymmdd.
LibraryId(path) == CASE path = "Ab/cd" -> 1 [] path = "Ab/x/Cd1" -> 2 [] path = "zz/ab" -> 3
DateTaken(path) ==
    CASE path = "Ab/cd" -> 20210501 [] path = "Ab/x/Cd1" -> 20220103 [] path = "zz/ab" -> 20210702
\* photos.rel_path: path.relative_to(root_path).
RelPath(path) ==
    SubSeq(Chars(path), Len(Chars(LibraryRootOf(path))) + 2, Len(Chars(path)))

\* str.lower() and SQLite lower(), one character.
Lower(c) == CASE c = "A" -> "a" [] c = "B" -> "b" [] c = "C" -> "c" [] OTHER -> c
LowerAll(s) == [i \in 1..Len(s) |-> Lower(s[i])]
\* The class [a-z0-9].
IsLowerAlnum(c) == c \in {"a", "b", "c", "d", "x", "z", "1"}
\* str.strip().
RECURSIVE Strip(_)
Strip(s) ==
    IF s = <<>> THEN s
    ELSE IF Head(s) = " " THEN Strip(Tail(s))
    ELSE IF s[Len(s)] = " " THEN Strip(SubSeq(s, 1, Len(s) - 1))
    ELSE s
\* re.findall(r"[a-z0-9]{2,}", text): the maximal runs of two characters or more.
RECURSIVE FindAll(_, _, _)
FindAll(text, i, run) ==
    LET found == IF Len(run) >= 2 THEN <<run>> ELSE <<>> IN
    IF i > Len(text) THEN found
    ELSE IF IsLowerAlnum(text[i]) THEN FindAll(text, i + 1, Append(run, text[i]))
    ELSE found \o FindAll(text, i + 1, <<>>)
QueryTokens(q2) == FindAll(LowerAll(q2), 1, <<>>)
\* lower(column) LIKE '%tok%'.
Contains(text, tok) ==
    \E i \in 1..(Len(text) - Len(tok) + 1) : SubSeq(text, i, i + Len(tok) - 1) = tok
LikeAnywhere(column, tok) == Contains(LowerAll(column), tok)

\* The structured filters of a request: year, month, day and folder, each optional.
NoFilter == [year |-> None, month |-> None, day |-> None, folder |-> None]
\* The where clauses: strftime('%Y' / '%m' / '%d', date_taken) = ?, and for a folder
\* `path LIKE folder/%` with no further separator behind the prefix.
Where(row, flt) ==
    LET date == DateTaken(row.path)
        chars == Chars(row.path)
        prefix == Chars(flt.folder[1]) \o <<"/">>
    IN /\ flt.year = None \/ date \div 10000 = flt.year[1]
       /\ flt.month = None \/ (date \div 100) % 100 = flt.month[1]
       /\ flt.day = None \/ date % 100 = flt.day[1]
       /\ flt.folder = None
          \/ /\ Len(chars) >= Len(prefix)
             /\ LowerAll(SubSeq(chars, 1, Len(prefix))) = LowerAll(prefix)
             /\ "/" \notin Range(SubSeq(chars, Len(prefix) + 1, Len(chars)))

\* The rows of a set as a sequence, latest date_taken first (the catalog here holds
\* no two photos taken on the same day).
RECURSIVE OrderByDateTakenDesc(_)
OrderByDateTakenDesc(rows) ==
    IF rows = {} THEN <<>>
    ELSE LET r == CHOOSE x \in rows : \A y \in rows : DateTaken(x.path) >= DateTaken(y.path)
         IN <<r>> \o OrderByDateTakenDesc(rows \ {r})
Ids(rows) == [i \in 1..Len(rows) |-> rows[i].id]
Take(s, n) == SubSeq(s, 1, Min(n, Len(s)))
\* s[offset : offset + limit].
Slice(s, offset, limit) == SubSeq(s, offset + 1, Min(offset + limit, Len(s)))

\* _path_token_match_ids(query_text, exclude_ids): one clause per token, joined by
\* `joiner`; the where clauses; ORDER BY date_taken DESC LIMIT 4000; then the ids
\* outside exclude_ids.
MaxQueryTokens == 8
LexicalLimit == 4000
TokenClause(row, tok) ==
    LikeAnywhere(Chars(row.path), tok) \/ LikeAnywhere(RelPath(row.path), tok)
PathTokenMatchIds(db, query_text, flt, exclude_ids) ==
    LET tokens == Take(QueryTokens(query_text), MaxQueryTokens)
        rows3 == {row \in db : /\ \A i \in 1..Len(tokens) : TokenClause(row, tokens[i])
                               /\ Where(row, flt)}
        ordered == Take(Ids(OrderByDateTakenDesc(rows3)), LexicalLimit)
        Kept(pid) == pid \notin exclude_ids
    IN IF tokens = <<>> THEN <<>> ELSE SelectSeq(ordered, Kept)

\* _pick_relevance_split(scores_desc), scores in thousandths: the count of hits in
\* the "most relevant" part.
SplitSmallList == 30
SplitSmallCount == 18
SplitMaxIndex == 160
SplitMinIndex == 12
SplitDefault == 48
PickRelevanceSplit(scores_desc) ==
    LET n == Len(scores_desc)
        max_i == Min(n - 1, SplitMaxIndex)
        min_i == Min(SplitMinIndex, max_i)
        \* python's scores_desc[i - 1] - scores_desc[i]
        Drop(i) == scores_desc[i] - scores_desc[i + 1]
        looked == {i \in 1..max_i : i >= min_i /\ Drop(i) > 0}
        best_drop == IF looked = {} THEN 0
                     ELSE Drop(CHOOSE i \in looked : \A j \in looked : Drop(i) >= Drop(j))
        best_i == IF looked = {} THEN Min(SplitDefault, max_i)
                  ELSE CHOOSE i \in looked :
                           /\ Drop(i) = best_drop
                           /\ \A j \in looked : Drop(j) = best_drop => i <= j
        \* best_drop < max(0.02, top * 0.06)
        gap_small == best_drop * 100 < Max(2000, scores_desc[1] * 6)
    IN IF n <= 0 THEN 0
       ELSE IF n < SplitSmallList THEN Min(n, SplitSmallCount)
       ELSE Max(1, IF gap_small THEN Min(SplitDefault, max_i) ELSE best_i)

\* base_k, max_k and the number of attempts of the search loop.
BaseK(offset, limit) == Min(2500, Max(200, offset + limit + 50))
MaxK == 20000
MaxAttempts == 10

\* The ranking a query gives the labels: nearest (highest score) first.
RECURSIVE ByScoreDesc(_, _)
ByScoreDesc(S, score) ==
    IF S = {} THEN <<>>
    ELSE LET l == CHOOSE x \in S : \A y \in S : score[x] >= score[y]
         IN <<l>> \o ByScoreDesc(S \ {l}, score)
OrderOf(score) == ByScoreDesc(Labels, score)
\* vector_index.search(vec, k=k), sorted by descending score: the labels.
Hits(lb, dl, k, score) == Search(lb, dl, k, OrderOf(score))

\* The search loop of _library_rows (`while attempts < 10`), from the state st =
\* [attempts, k, labels, deleted, min_keep, relevant_cutoff, filtered_hits, eligible]
\* on; labels and
\* deleted are the vector index, which the loop prunes of ids without a photo row.
\* returned is bookkeeping the program does not keep: every id a search of the loop
\* has returned.
\* The passes of the loop are the operators below, last step first.
RECURSIVE SearchLoop(_, _, _, _, _, _, _)

\* k = min(max_k, k + base_k).
Widened(st, offset, limit) == [st EXCEPT !.k = Min(MaxK, @ + BaseK(offset, limit))]

\* The end of a pass: `break` when the list is complete or fills the page, else the
\* next pass, with the same k after a prune and a wider k otherwise.
Decided(st, missing_ids, last_score, db, flt, offset, limit, score, query_tokens) ==
    IF \/ st.k >= MaxK
       \/ last_score < st.min_keep[1]
       \/ Len(st.eligible) >= offset + limit
    THEN st
    ELSE IF missing_ids # {}
    THEN SearchLoop(st, db, flt, offset, limit, score, query_tokens)
    ELSE SearchLoop(Widened(st, offset, limit), db, flt, offset, limit, score,
                    query_tokens)

\* eligible_hits: the filtered hits with score >= min_keep_score.
Kept(st, missing_ids, filtered_hits, db, flt, offset, limit, score, query_tokens) ==
    LET Keeps(pid) == score[pid] >= st.min_keep[1] IN
    Decided([st EXCEPT !.eligible = SelectSeq(filtered_hits, Keeps)], missing_ids,
            score[filtered_hits[Len(filtered_hits)]], db, flt, offset, limit, score,
            query_tokens)

\* floor: 0.16 for a short query with a low top score, else 0.18 or 0.22.
KeepFloor(top, query_tokens) ==
    IF Len(query_tokens) <= 2 /\ top < 300 THEN 160
    ELSE IF top < 280 THEN 180 ELSE 220
\* min_keep_score = min(max(floor, relevant_cutoff - 0.10), relevant_cutoff).
WithCutoff(st, relevant_cutoff, floor) ==
    [st EXCEPT !.relevant_cutoff = Some(relevant_cutoff),
               !.min_keep = Some(Min(Max(floor, relevant_cutoff - 100), relevant_cutoff))]
\* `if min_keep_score is None`: the cutoffs are taken from the first list of
\* filtered hits and kept for the later passes.
Thresholded(st, scores_desc, query_tokens) ==
    IF st.min_keep # None THEN st
    ELSE WithCutoff(st,
                    scores_desc[Max(1, Min(PickRelevanceSplit(scores_desc),
                                           Len(scores_desc)))],
                    KeepFloor(scores_desc[1], query_tokens))

\* Without a hit that has a row passing the filters: `continue` with the same k
\* after a prune, with a wider k otherwise, `break` at max_k.
Filtered(st, missing_ids, filtered_hits, db, flt, offset, limit, score, query_tokens) ==
    IF filtered_hits = <<>>
    THEN IF missing_ids # {}
         THEN SearchLoop(st, db, flt, offset, limit, score, query_tokens)
         ELSE IF st.k >= MaxK THEN st
         ELSE SearchLoop(Widened(st, offset, limit), db, flt, offset, limit, score,
                         query_tokens)
    ELSE Kept(Thresholded(st, [i \in 1..Min(300, Len(filtered_hits)) |->
                                   score[filtered_hits[i]]], query_tokens),
              missing_ids, filtered_hits, db, flt, offset, limit, score, query_tokens)

\* vector_index.delete_many(missing_ids), then the hits whose row passes the where
\* clauses, in ranking order.
Pruned(st, hits, missing_ids, db, flt, offset, limit, score, query_tokens) ==
    LET pruned == DeleteMany(st.labels, st.deleted, missing_ids)
        InById(pid) == \E row \in db : row.id = pid /\ Where(row, flt)
    IN Filtered([st EXCEPT !.attempts = @ + 1, !.labels = pruned.labels,
                           !.deleted = pruned.deleted,
                           !.filtered_hits = SelectSeq(hits, InById),
                           !.returned = @ \cup Range(hits)],
                missing_ids, SelectSeq(hits, InById), db, flt, offset, limit, score,
                query_tokens)

\* `if not ids_all: break`, else missing_ids: the hits without a photo row.
Looked(st, hits, db, flt, offset, limit, score, query_tokens) ==
    IF hits = <<>> THEN [st EXCEPT !.attempts = @ + 1]
    ELSE Pruned(st, hits, Range(hits) \ {row.id : row \in db}, db, flt, offset, limit,
                score, query_tokens)

SearchLoop(st, db, flt, offset, limit, score, query_tokens) ==
    IF st.attempts >= MaxAttempts THEN st
    ELSE Looked(st, Hits(st.labels, st.deleted, st.k, score), db, flt, offset, limit,
                score, query_tokens)

\* The daily shuffle: ORDER BY (((id * 1103515245) + seed) & 2147483647), id, with
\* seed = int(datetime.now().strftime("%Y%m%d")). The sums are taken modulo 2^31
\* without passing 2^31 - 1 on the way.
ShuffleMultiplier == 1103515245
ShuffleMask == 2147483647
AddMasked(a, b) == IF a > ShuffleMask - b THEN (a - (ShuffleMask - b)) - 1 ELSE a + b
RECURSIVE TimesMasked(_, _)
TimesMasked(id, m) == IF id = 0 THEN 0 ELSE AddMasked(TimesMasked(id - 1, m), m)
\* The seed with the hour of the request in it.
ShuffleSeedHourly(clock) == clock.date * 100 + clock.hour
ShuffleSeed(clock) == clock.date
ShuffleKey(id, seed) == AddMasked(TimesMasked(id, ShuffleMultiplier), seed)
RECURSIVE OrderByShuffle(_, _)
OrderByShuffle(rows, seed) ==
    IF rows = {} THEN <<>>
    ELSE LET Before(x, y) == \/ ShuffleKey(x.id, seed) < ShuffleKey(y.id, seed)
                             \/ /\ ShuffleKey(x.id, seed) = ShuffleKey(y.id, seed)
                                /\ x.id <= y.id
             r == CHOOSE x \in rows : \A y \in rows : Before(x, y)
         IN <<r>> \o OrderByShuffle(rows \ {r}, seed)

\* limit = max(1, min(int(limit), 800)).
MaxPage == 800
\* What a request gets and what it leaves of the vector index.
Answer(status, rows, combined, semantic, lexical, total, ix) ==
    [status |-> status, rows |-> rows, combined |-> combined, semantic |-> semantic,
     lexical |-> lexical, total_matches |-> total, index |-> ix]

\* The page of a non-empty query: combined_ids = semantic_ids + lexical_ids,
\* page_ids = combined_ids[offset : offset + limit], and the rows found for them.
Combined(semantic_ids, lexical_ids, offset, limit, db, ix) ==
    LET InCatalog(pid) == pid \in {row.id : row \in db} IN
    Answer("200", SelectSeq(Slice(semantic_ids \o lexical_ids, offset, limit), InCatalog),
           semantic_ids \o lexical_ids, semantic_ids, lexical_ids,
           Len(semantic_ids) + Len(lexical_ids), ix)
\* After the search loop: semantic_ids are the eligible hits, lexical_ids the path
\* token matches outside them.
Searched(end, q2, flt, offset, limit, db, ix) ==
    Combined(end.eligible, PathTokenMatchIds(db, q2, flt, Range(end.eligible)), offset,
             limit, db, [ix EXCEPT !.labels = end.labels, !.deleted = end.deleted])
\* The page of an empty query: the rows passing the filters in the order of the day.
Browsed(shuffled, offset, limit, ix) ==
    Answer("200", Slice(shuffled, offset, limit), <<>>, <<>>, <<>>, Len(shuffled), ix)

\* The search loop at its first pass: k = base_k, no cutoff yet.
LoopStart(ix, offset, limit) ==
    [attempts |-> 0, k |-> BaseK(offset, limit), labels |-> ix.labels,
     deleted |-> ix.deleted, min_keep |-> None, relevant_cutoff |-> None,
     filtered_hits |-> <<>>, eligible |-> <<>>, returned |-> {}]

\* _library_rows(q, filters, offset, limit) with the catalog db, the vector index ix
\* as _ensure_loaded leaves it (ix.ok: it did not raise), the embedder emb and the
\* clock; `score` is the similarity the query has to each label.
LibraryRowsOf(q2, flt, offset, limit, score, db, ix, emb, clock) ==
    IF q2 # <<>>
    THEN IF emb = "none" THEN Answer("400", <<>>, <<>>, <<>>, <<>>, 0, ix)
         ELSE IF emb = "broken" \/ ~ix.ok THEN Answer("500", <<>>, <<>>, <<>>, <<>>, 0, ix)
         ELSE Searched(SearchLoop(LoopStart(ix, offset, limit),
                                  db, flt, offset, limit, score, QueryTokens(q2)),
                       q2, flt, offset, limit, db, ix)
    ELSE Browsed(Ids(OrderByShuffle({row \in db : Where(row, flt)}, ShuffleSeed(clock))),
                 offset, limit, ix)
\* q2 = q.strip(), offset = max(0, int(offset)), limit = max(1, min(int(limit), 800)).
LibraryRows(query, flt, offset, limit, score, db, ix, emb, clock) ==
    LibraryRowsOf(Strip(query), flt, Max(0, offset), Max(1, Min(limit, MaxPage)), score,
                  db, ix, emb, clock)

\* ---- requests
Queries == {"", " ", "ab", "AB cd", "zz cd", "b c", "zz zz zz zz zz zz zz zz cd"}
Filters == {NoFilter, [NoFilter EXCEPT !.year = Some(2021)],
            [NoFilter EXCEPT !.folder = Some("Ab")]}
\* The similarities a query can have to the labels, in thousandths: no two equal.
Scores == {[l \in Labels |-> 100 * l + 100], [l \in Labels |-> 100 * (MaxLabel - l) + 200]}
\* The similarities that matter to a request: none to an empty query.
ScoresFor(query) == IF Strip(Chars(query)) = <<>> THEN {[l \in Labels |-> 0]} ELSE Scores

\* GET /?q=..&year=..&folder=..&offset=..&limit=.. A non-empty query with an
\* embedder configured reaches embed_text and vector_index.search, which loads the
\* index at its first use.
LibraryRequest(query, flt, offset, limit, score) ==
    LET e == Loaded
        a == LibraryRows(Chars(query), flt, offset, limit, score, photos, e, embedder, now)
        searched == Strip(Chars(query)) # <<>> /\ embedder = "ok"
    IN /\ response = NoResponse
       /\ response' = [status |-> a.status, rows |-> a.rows, combined |-> a.combined,
                       semantic |-> a.semantic, lexical |-> a.lexical,
                       total_matches |-> a.total_matches,
                       request |-> [q |-> query, flt |-> flt, offset |-> offset,
                                    limit |-> limit, score |-> score]]
       /\ loaded' = IF searched THEN e.loaded ELSE loaded
       /\ bin_path' = IF searched THEN e.bin ELSE bin_path
       /\ meta_path' = IF searched THEN e.meta ELSE meta_path
       /\ max_elements' = IF searched THEN e.max_elements ELSE max_elements
       /\ labels' = IF searched THEN a.index.labels ELSE labels
       /\ deleted_labels' = IF searched THEN a.index.deleted ELSE deleted_labels
       /\ observed' = "none"
       /\ UNCHANGED <<pipeline_state, split_state, side_state, worker_state, config, hnswlib, embedder, now>>

\* library(): the page is rendered from what _library_rows returned and sent; the
\* next request can come.
LibraryRendered ==
    /\ response # NoResponse
    /\ response' = NoResponse
    /\ UNCHANGED <<pipeline_state, split_state, side_state, worker_state, index_state, labels, deleted_labels, observed,
                   embedder, now>>

\* Time passes: an hour, or the night.
ClockTick ==
    /\ now' = IF now.hour = 0 THEN [now EXCEPT !.hour = 1]
              ELSE [date |-> now.date + 1, hour |-> 0]
    /\ now'.date < FirstDay + MaxDays
    /\ UNCHANGED <<pipeline_state, split_state, side_state, worker_state, index_state, labels, deleted_labels, observed,
                   embedder, response>>

\* The catalog of the page requests: both roots scanned, every photo indexed and
\* embedded, the vector index persisted by the run before or its file discarded;
\* the process is installed with or without the embedder and hnswlib.
LibraryInit ==
    /\ tracked_roots = <<[path |-> "Ab", scan_started |-> TRUE, scan_finished |-> "current"],
                         [path |-> "zz", scan_started |-> TRUE, scan_finished |-> "current"]>>
    /\ photos = {[id |-> LibraryId(p), root_id |-> LibraryRootId(p), path |-> p,
                  sig |-> 1, has_wh |-> TRUE, embedding_model |-> ModelId] :
                 p \in LibraryPaths}
    /\ thumbs = {LibraryId(p) : p \in LibraryPaths}
    /\ WorkersIdle
    /\ labels = {}
    /\ deleted_labels = {}
    /\ loaded = FALSE
    /\ max_elements = 0
    /\ config = [dim |-> ClipDim, model_id |-> ModelId]
    /\ embedder \in {"none", "broken", "ok"}
    /\ hnswlib \in IF embedder = "ok" THEN BOOLEAN ELSE {TRUE}
    /\ bin_path \in {None, Some(BlobOf({LibraryId(p) : p \in LibraryPaths}, {},
                                       Doubled(DefaultMaxElements,
                                               Cardinality(LibraryPaths))))}
    /\ meta_path = Some(MetaOf(config))
    /\ now = [date |-> FirstDay, hour |-> 0]
    /\ response = NoResponse
    /\ SplitInit
    /\ WorkerInit
    /\ SideInit
    /\ observed = "none"

LibraryNext ==
    \/ \E query \in Queries, flt \in Filters, offset \in 0..MaxOffset, limit \in 1..MaxLimit :
          \E score \in ScoresFor(query) : LibraryRequest(query, flt, offset, limit, score)
    \/ LibraryRendered
    \/ \E root_id \in DOMAIN tracked_roots : RootsRemove(root_id)
    \/ ClockTick

LibrarySpec == LibraryInit /\ [][LibraryNext]_vars

\* ================================================================ claims
\* The tasks the ingest thread has not finished: queued, or in its hands.
Unprocessed ==
    Range(q) \cup (IF active_ingest = None THEN {} ELSE {active_ingest[1].task})
\* Those among them that the current scan of root_id enqueued.
UnprocessedOfScan(root_id) ==
    {t \in Unprocessed : t.root_id = root_id /\ t.origin = "scan"}

\* C1: last_scan_finished_at of a root is never written while a task that the
\* root's current scan enqueued is still in the ingest queue or in flight: a root
\* whose finish mark was written since its current scan started has no such task.
C1_FinishedOnlyAfterScanTasks ==
    \A r \in DOMAIN tracked_roots :
        tracked_roots[r].scan_finished = "current" => UnprocessedOfScan(r) = {}

\* The current scan of root r has enumerated everything, nothing failed, and every
\* task it enqueued has been processed.
ScanSettled(r) ==
    /\ r \in DOMAIN tracked_roots
    /\ tracked_roots[r].scan_started
    /\ r \in DOMAIN scan_progress
    /\ scan_progress[r].scan_done
    /\ ~scan_progress[r].had_errors
    /\ UnprocessedOfScan(r) = {}

\* C2: without a shutdown, once the current scan of a root has completed its
\* enumeration without failures and every task it enqueued has been processed,
\* last_scan_finished_at is written: the handler that completes the condition
\* (the end of the enumeration or the last task) writes it before it returns.
C2_FinishedOnceSettled ==
    ~stop => \A r \in DOMAIN tracked_roots :
                 ScanSettled(r) => tracked_roots[r].scan_finished = "current"
\* A scan that enqueued a task is settled and marked finished.
C2_Witness ==
    /\ ~stop
    /\ \E r \in DOMAIN tracked_roots :
          /\ ScanSettled(r)
          /\ scan_progress[r].enqueued >= 1
          /\ tracked_roots[r].scan_finished = "current"

\* The photo of the task in hand is up to date: the row the execution read is
\* still the row of the path, the file's (size, mtime) is the stored one, the stored
\* embedding_model is the active model with its label live, and the thumbnail exists.
UpToDate(ai) ==
    LET row == SelectByPath(photos, ai.task.photo_path) IN
    /\ row # None
    /\ ai.existing = row
    /\ ai.st = fs[ai.task.photo_path]
    /\ row[1].sig = ai.st
    /\ row[1].embedding_model = ModelId
    /\ row[1].id \in labels
    /\ row[1].id \in thumbs

\* C3: _index_one on a file whose (size, mtime) equals the stored record, whose
\* stored embedding_model is the active model with its label present and whose
\* thumbnail exists performs zero writes: it carries out no writing statement, and
\* the catalog rows, the thumbnails, the index labels and the recent-ingest
\* history are what they were.
C3_NoWriteWhenUpToDate ==
    [][(active_ingest # None /\ active_ingest' = None /\ UpToDate(active_ingest[1]))
       => /\ observed' = "noop"
          /\ UNCHANGED <<photos, thumbs, labels, deleted_labels, recent_ingest>>]_vars
\* _index_one has just returned without a write, and every photo is up to date.
C3_Witness ==
    /\ observed = "noop"
    /\ photos # {}
    /\ \A p \in photos : /\ p.sig = fs[p.path]
                         /\ p.embedding_model = ModelId
                         /\ p.id \in labels
                         /\ p.id \in thumbs

\* C4: in every state the ingest queue holds at most its configured capacity and
\* the scan queue holds at most its configured capacity.
C4_QueuesWithinCapacity ==
    /\ Len(q) <= Max(1, ingest_max)
    /\ Len(scan_q) <= Max(1, scan_max)
\* Both queues are at capacity, and a producer waits at each.
C4_Witness ==
    /\ Len(q) = Max(1, ingest_max)
    /\ Len(scan_q) = Max(1, scan_max)
    /\ watcher_blocked # None
    /\ scan_blocked # None

C6_OneRowPerPath ==
    \A p1 \in photos : \A p2 \in photos : p1.path = p2.path => p1 = p2
\* Both executions read the catalog when it had no row for the path, the ingest
\* thread has inserted its row since, and the second execution goes on from what
\* it read: its INSERT of the same path comes next.
C6_Witness ==
    /\ second_ingest # None
    /\ second_ingest[1].existing = None
    /\ active_ingest = None
    /\ \E p \in photos : /\ p.path = second_ingest[1].task.photo_path
                          /\ p.path \in Range(recent_ingest)

\* C7: the photos of a removed root go in the transaction that removes it, and in
\* every state the root_id of every Photo row is the id of an existing TrackedRoot.
C7_PhotosHaveRoot == \A p \in photos : p.root_id \in DOMAIN tracked_roots
\* A root whose photo had been ingested (its thumbnail is there) has been removed:
\* no root and no photo is left.
C7_Witness ==
    /\ tracked_roots = <<>>
    /\ photos = {}
    /\ thumbs # {}

\* C8: once a tracked root is removed, no ScanTask or IndexTask carrying its id is
\* taken up by the scanner or the ingest thread, a scan in progress enqueues nothing
\* more for it, and no thumbnail or label is made for a photo id it no longer has:
\* each step that takes a task, or enqueues from a scan, names a tracked root.
C8_NoActivityForRemovedRoot ==
    [][/\ (active_ingest = None /\ active_ingest' # None)
            => active_ingest'[1].task.root_id \in DOMAIN tracked_roots
       /\ (active_scan = None /\ active_scan' # None)
            => active_scan'[1].task.root_id \in DOMAIN tracked_roots
       /\ (active_scan # None /\ active_scan' # None
           /\ active_scan'[1].todo # active_scan[1].todo)
            => active_scan[1].task.root_id \in DOMAIN tracked_roots
       /\ (thumbs' \ thumbs) \subseteq {p.id : p \in photos'}
       /\ (labels' \ labels) \subseteq {p.id : p \in photos'}]_vars

\* C9: whenever the ingest thread decides for a known photo, needs_embedding is
\* true if the stored embedding_model differs from the active model, and also if
\* it matches while the vector index holds no live label for the photo id.
C9_NeedsEmbeddingWhenLabelMissing ==
    [][(active_ingest = None /\ active_ingest' # None)
       => LET ai == active_ingest'[1] IN
          (/\ EmbedderConfigured
           /\ ai.existing # None
           /\ \/ ai.existing[1].embedding_model # ModelId
              \/ ai.existing[1].id \notin labels)
          => ai.needs_embedding]_vars

\* C10: in every state every Photo whose stored embedding_model is the active
\* model has a live label for its id in the vector index.
C10_EmbeddedPhotosHaveLabel ==
    \A p \in photos : p.embedding_model = ModelId => p.id \in labels

\* ---------------------------------------------------------------- C11
\* C11: add_or_update of a label the index has never held succeeds on an index
\* that loads, also when the index is filled to its capacity (N labels in an index
\* whose capacity is N): no error reaches the caller, the capacity afterwards
\* holds every label, the new label and every label that was live before are live
\* afterwards, and while nothing is marked deleted a search as broad as the index
\* returns all of them, whatever the query.
C11_OverflowingInsertSucceeds ==
    [][\A label \in Labels, revive \in BOOLEAN :
          (/\ Loaded.ok
           /\ label \notin Loaded.labels \cup Loaded.deleted
           /\ IndexAddOrUpdate(label, revive))
          => /\ observed' = "ok"
             /\ labels' = Loaded.labels \cup {label}
             /\ CurrentCount(labels', deleted_labels') <= max_elements'
             /\ deleted_labels' = {} =>
                    \A order \in Orders :
                        Range(Search(labels', deleted_labels', Cardinality(labels'),
                                     order)) = labels']_vars
\* The index was created with the default capacity N, N + 1 labels were inserted,
\* the last insert returned and the capacity has doubled.
C11_Witness ==
    /\ loaded
    /\ observed = "ok"
    /\ deleted_labels = {}
    /\ Cardinality(labels) = DefaultMaxElements + 1
    /\ max_elements = 2 * DefaultMaxElements

\* ---------------------------------------------------------------- C12
\* C12: the first use of the vector index by a process that has hnswlib (here a
\* search) completes without raising, and it leaves the saved index loaded if
\* hnsw.bin and meta.json both exist and meta.json names the dimension and model id
\* of the process; in every other case (meta.json missing, another dimension or
\* model, a file cut short) hnsw.bin is discarded and the index starts empty.
C12_LoadedOrDiscarded ==
    [][(/\ ~loaded
        /\ hnswlib
        /\ \E k \in Labels : IndexSearch(k))
       => /\ loaded'
          /\ observed' = "ok"
          /\ IF /\ bin_path # None
                /\ meta_path = Some(MetaOf(config))
                /\ bin_path[1].readable
             THEN /\ labels' = bin_path[1].labels
                  /\ deleted_labels' = bin_path[1].deleted
                  /\ bin_path' = bin_path
             ELSE /\ labels' = {}
                  /\ deleted_labels' = {}
                  /\ bin_path' = None]_vars

\* ================================================================ relevance split
\* _pick_relevance_split on its own, on lists of descending similarities.
ExampleScores == <<900, 880, 850, 400, 380, 350>>
ScoreLists ==
    {ExampleScores \o [i \in 1..n |-> 350 - i * step] : n \in 0..MaxTail, step \in 0..MaxStep}

\* split_n = _pick_relevance_split(split_scores).
PickSplit ==
    /\ split_n = None
    /\ split_n' = Some(PickRelevanceSplit(split_scores))
    /\ UNCHANGED <<pipeline_state, side_state, index_state, web_state, worker_state, labels,
                   deleted_labels, observed, split_scores>>

\* A list of similarities, and no call yet.
SplitCall ==
    /\ PipelineInit
    /\ IndexInit
    /\ WebInit
    /\ WorkerInit
    /\ SideInit
    /\ split_scores \in ScoreLists
    /\ split_n = None
    /\ observed = "none"

SplitSpec == SplitCall /\ [][PickSplit]_vars

\* ---------------------------------------------------------------- C16
\* C16: for descending similarities that begin 0.9, 0.88, 0.85, 0.40, 0.38, 0.35 and
\* go on with smaller drops, the relevance split returns 3, the place of the
\* steepest drop (0.85 -> 0.40), whatever the length of the list.
C16_SplitAtSteepestDrop ==
    (split_n # None /\ SubSeq(split_scores, 1, Len(ExampleScores)) = ExampleScores)
        => split_n[1] = 3

\* ---------------------------------------------------------------- C13
\* The step in which a request is handled, and the request of an answer.
RequestStep == response = NoResponse /\ response' # NoResponse
AskedQuery(r) == Strip(Chars(r.request.q))
\* A request with a non-empty query made while the embedder is not configured or
\* does not load, or while hnswlib is missing.
SearchWithoutCapability ==
    /\ RequestStep
    /\ AskedQuery(response') # <<>>
    /\ embedder # "ok" \/ ~hnswlib
\* C13: when the embedder or the vector index is unavailable, a search with a
\* non-empty query does not fail: it answers with the lexical matches alone, the
\* photos whose path matches the query tokens.
C13_UnavailableDegradesToLexical ==
    [][SearchWithoutCapability
       => /\ response'.status = "200"
          /\ response'.semantic = <<>>
          /\ response'.combined =
                 PathTokenMatchIds(photos, AskedQuery(response'), response'.request.flt,
                                   {})]_vars

\* ---------------------------------------------------------------- C14, C15
\* A request with a non-empty query that is answered.
SearchAnswered ==
    /\ RequestStep
    /\ AskedQuery(response') # <<>>
    /\ response'.status = "200"
\* The lexical-fallback matches as stated: the photos that pass the filters and
\* whose full path or root-relative path contains at least one of the first 8
\* query tokens, compared without case.
AnyTokenMatchIds(db, q2, flt) ==
    LET tokens == QueryTokens(q2) IN
    {row.id : row \in {r \in db :
        /\ \E i \in 1..Min(Len(tokens), MaxQueryTokens) :
               \/ Contains(LowerAll(Chars(r.path)), tokens[i])
               \/ Contains(LowerAll(RelPath(r.path)), tokens[i])
        /\ Where(r, flt)}}
NoDuplicates(s) == \A i, j \in 1..Len(s) : i # j => s[i] # s[j]

\* C14: in the answer to a non-empty query every lexical-fallback match is in the
\* combined list, also when the search loop kept no semantic hit; the lexical-only
\* matches come after all semantic matches; no photo id is listed twice.
C14_LexicalMatchesAppended ==
    [][SearchAnswered
       => /\ AnyTokenMatchIds(photos, AskedQuery(response'), response'.request.flt)
                 \subseteq Range(response'.combined)
          /\ response'.combined = response'.semantic \o response'.lexical
          /\ NoDuplicates(response'.combined)]_vars

\* C15: the lexical part of an answer holds exactly the lexical-fallback matches
\* that are not among the semantic hits: the photos that pass the filters and have
\* at least one of the first 8 query tokens in their path or root-relative path.
C15_MatchIsAnyOfFirstEightTokens ==
    [][SearchAnswered
       => Range(response'.lexical) =
              AnyTokenMatchIds(photos, AskedQuery(response'), response'.request.flt)
                  \ Range(response'.semantic)]_vars

\* ---------------------------------------------------------------- C17
\* The key of the day of a photo id, and the order it gives: by key, ties by id.
DayKey(id) == ShuffleKey(id, now.date)
DayBefore(x, y) == DayKey(x) < DayKey(y) \/ (DayKey(x) = DayKey(y) /\ x < y)
\* The ids of the catalog that pass the filters, and how many of them come before x.
PassingIds(flt) == {row.id : row \in {r \in photos : Where(r, flt)}}
DayRank(x, flt) == Cardinality({y \in PassingIds(flt) : DayBefore(y, x)})
\* What the request of response r gets at another hour of the same day, from `offset`.
SameDayRows(r, hour, offset) ==
    LibraryRows(Chars(r.request.q), r.request.flt, offset, r.request.limit,
                [l \in Labels |-> 0], photos, Loaded, embedder,
                [date |-> now.date, hour |-> hour]).rows
\* C17: a request with an empty query gets the ids that pass the filters, ordered by
\* (id * 1103515245 + yyyymmdd) mod 2^31 with ties broken by id, from rank `offset`
\* to rank `offset + limit - 1`; the same request at any hour of that day over the
\* same catalog gets the same sequence, and the page after it shares no id with it.
C17_DailyOrderIsDeterministic ==
    [][(RequestStep /\ AskedQuery(response') = <<>>) =>
          LET r == response'
              first == r.request.offset
              after == r.request.offset + r.request.limit
          IN /\ r.status = "200"
             /\ Range(r.rows) = {x \in PassingIds(r.request.flt) :
                                    DayRank(x, r.request.flt) \in first..(after - 1)}
             /\ \A i, j \in 1..Len(r.rows) : i < j => DayBefore(r.rows[i], r.rows[j])
             /\ \A hour \in {0, 1} :
                   /\ SameDayRows(r, hour, first) = r.rows
                   /\ Range(SameDayRows(r, hour, after)) \cap Range(r.rows) = {}]_vars
\* A second page of the shuffled catalog, asked for later in the day.
C17_Witness ==
    /\ response # NoResponse
    /\ AskedQuery(response) = <<>>
    /\ response.request.offset = 1
    /\ Len(response.rows) = 2
    /\ now.hour = 1

\* ---------------------------------------------------------------- C18
\* The task in the hands of the ingest thread found a row whose (size, mtime) is
\* not the file's, and the row is still in the catalog.
FoundChanged ==
    /\ active_ingest # None
    /\ active_ingest[1].st # 0
    /\ active_ingest[1].existing # None
    /\ ~active_ingest[1].unchanged
    /\ active_ingest[1].existing[1].id \in PhotoIds
\* C18: when ingest finds the (size, mtime) of a file different from the stored row
\* and the task completes without raising, the row holds the (size, mtime) found,
\* the thumbnail of the photo has been made, and the embedding has been computed,
\* put into the vector index under the photo id and recorded on the row.
C18_ChangedFileRecomputesAll ==
    [][\A thumb_ok, embed_ok, revive \in BOOLEAN :
          (/\ FoundChanged
           /\ IngestFinish(thumb_ok, embed_ok, revive)
           /\ IndexWrite(active_ingest[1], photos, tracked_roots, thumbs, labels,
                         deleted_labels, recent_ingest, thumb_ok, embed_ok, revive).ok)
          => LET id == active_ingest[1].existing[1].id IN
             /\ \E row \in photos' : /\ row.id = id
                                     /\ row.sig = active_ingest[1].st
                                     /\ row.embedding_model = ModelId
             /\ id \in thumbs'
             /\ id \in labels']_vars

\* ---------------------------------------------------------------- C19
\* The ingest thread, or the scanner thread, leaves its except block in this step.
IngestRaised == observed' = "raised" /\ active_ingest # None /\ active_ingest' = None
ScanRaised == observed' = "raised" /\ active_scan # None /\ active_scan' = None
\* Nothing is queued and neither thread holds a task.
WorkersDrained == q = <<>> /\ active_ingest = None /\ scan_q = <<>> /\ active_scan = None
\* C19: when _index_one raises on an IndexTask, or a scan raises on its ScanTask,
\* _failed_total grows by one, _last_failed names the root of the task and the path
\* (of the photo; of the file the scan stood at, or of the root), the progress
\* record of the root, where there is one, is flagged had_errors, the thread is
\* through with the item and back at its queue, and the queues are as they were.
\* Once a failure is on record, and for as long as shutdown is not requested, the
\* tasks on the ingest queue are still taken and gone through by the ingest thread
\* and the tasks on the scan queue by the scanner thread, until nothing is left.
C19_FailureDoesNotStopWorkers ==
    /\ [][/\ IngestRaised =>
               LET task == active_ingest[1].task IN
               /\ failed_total' = failed_total + 1
               /\ last_failed' = Some([path |-> task.photo_path, root_id |-> task.root_id])
               /\ task.root_id \in DOMAIN scan_progress
                    => scan_progress'[task.root_id].had_errors
               /\ ingest_mark' = None
               /\ q' = q
          /\ ScanRaised =>
               LET task == active_scan[1].task IN
               /\ failed_total' = failed_total + 1
               /\ last_failed' # None
               /\ last_failed'[1].root_id = task.root_id
               /\ last_failed'[1].path \in {task.root_path} \cup Range(WalkOrder(task.root_path))
               /\ scan_progress'[task.root_id].had_errors
               /\ scan_mark' = None
               /\ scan_q' = scan_q]_vars
    /\ failed_total > 0 ~> (stop \/ WorkersDrained)
\* With failures on record and no shutdown, the ingest thread has gone through a
\* task without raising, and the scanner thread has taken the next scan.
C19_Witness ==
    /\ failed_total = MaxFailed
    /\ ~stop
    /\ observed = "ok"
    /\ active_scan # None

\* ---------------------------------------------------------------- C20
\* C20: once the progress record of a root is flagged had_errors (a directory of
\* the root could not be listed during its scan, the scan raised, or an ingest task
\* of the root raised while the record was current), no later step writes
\* last_scan_finished_at for the root while that record is the current one,
\* whichever thread takes the step and wherever it stands.
C20_NoFinishAfterError ==
    [][\A root_id \in DOMAIN scan_progress \cap DOMAIN tracked_roots :
          scan_progress[root_id].had_errors
          => ~(/\ tracked_roots[root_id].scan_finished # "current"
               /\ root_id \in DOMAIN tracked_roots'
               /\ tracked_roots'[root_id].scan_finished = "current")]_vars

\* ------------------------------------------------ persisted root errors
\* The rate limit on UPDATE tracked_roots SET last_error, as the scanner thread
\* (_on_scan_error) and the ingest thread (the except block of _run) run it.
\* Both read and write PhotoIndexer._last_root_error_at outside _stats_lock, so
\* the test and the stamp of one thread are two steps the other can come between.
\* Time is in whole seconds.
MaxRoot == 2
MaxClock == 6
ErrorInterval == 2
LimiterRoots == 1 .. MaxRoot

\* `now - last > 2.0` with last = _last_root_error_at.get(root_id, 0.0).
PassesLimit(last_root_error_at, root_id, t) ==
    t - last_root_error_at[root_id] > ErrorInterval

\* The thread past the test: it holds the root and the time it read.
Passed(root_id, t) == Some([root_id |-> root_id, now |-> t])

\* `self._last_root_error_at[root_id] = now`, then the UPDATE in its own
\* transaction, which the catalog sees at the time the thread runs it.
PersistError(l, thread) ==
    LET held == l[thread][1]
    IN  [l EXCEPT ![thread] = None,
                  !.last_root_error_at[held.root_id] = held.now,
                  !.persisted_at[held.root_id] = Append(@, l.clock)]

\* time.time() is far above the interval when the process starts: the first
\* error of a root always passes the test against the default 0.0.
LimiterInit ==
    /\ PipelineInit
    /\ IndexInit
    /\ WebInit
    /\ SplitInit
    /\ WorkerInit
    /\ observed = "none"
    /\ limiter = [clock |-> ErrorInterval + 1,
                  last_root_error_at |-> [r \in LimiterRoots |-> 0],
                  scanner |-> None,
                  ingest |-> None,
                  persisted_at |-> [r \in LimiterRoots |-> <<>>]]
    /\ threads = None
    /\ flush = None
    /\ scan_wave = None
    /\ monitor = None

limiter_rest == <<pipeline_state, index_state, web_state, split_state, worker_state,
                  labels, deleted_labels, observed, threads, flush, monitor,
    scan_wave>>

\* _on_scan_error up to its test: os.walk reported a directory of the root.
OnScanError(root_id) ==
    /\ limiter.scanner = None
    /\ PassesLimit(limiter.last_root_error_at, root_id, limiter.clock)
    /\ limiter' = [limiter EXCEPT !.scanner = Passed(root_id, limiter.clock)]
    /\ UNCHANGED limiter_rest

\* _on_scan_error past its test.
OnScanErrorPersist ==
    /\ limiter.scanner # None
    /\ limiter' = PersistError(limiter, "scanner")
    /\ UNCHANGED limiter_rest

\* The except block of _run up to its test: _index_one raised on a file of the
\* root.
IngestFailed(root_id) ==
    /\ limiter.ingest = None
    /\ PassesLimit(limiter.last_root_error_at, root_id, limiter.clock)
    /\ limiter' = [limiter EXCEPT !.ingest = Passed(root_id, limiter.clock)]
    /\ UNCHANGED limiter_rest

\* The except block of _run past its test.
IngestFailedPersist ==
    /\ limiter.ingest # None
    /\ limiter' = PersistError(limiter, "ingest")
    /\ UNCHANGED limiter_rest

\* A second passes.
TimePasses ==
    /\ limiter.clock < MaxClock
    /\ limiter' = [limiter EXCEPT !.clock = @ + 1]
    /\ UNCHANGED limiter_rest

LimiterNext ==
    \/ \E root_id \in LimiterRoots : OnScanError(root_id)
    \/ OnScanErrorPersist
    \/ \E root_id \in LimiterRoots : IngestFailed(root_id)
    \/ IngestFailedPersist
    \/ TimePasses

LimiterSpec == LimiterInit /\ [][LimiterNext]_vars

\* C21: any two persisted error updates of one root, made by the scan error
\* callback or by the ingest failure handler, are more than 2 seconds apart, also
\* when both threads report errors of the root at the same time.
C21_PersistedErrorsTwoSecondsApart ==
    \A root_id \in LimiterRoots :
        \A i, j \in DOMAIN limiter.persisted_at[root_id] :
            i < j => limiter.persisted_at[root_id][j] - limiter.persisted_at[root_id][i]
                         > ErrorInterval

\* ---------------------------------------------------------------- C22
\* The rows of photos' that name the active model and did not name it before.
NewlyEmbedded == {p \in photos' : /\ p.embedding_model = ModelId
                                  /\ ~\E o \in photos : /\ o.id = p.id
                                                        /\ o.embedding_model = ModelId}
\* The row of the task's path before and after the writes of _index_one.
RowBefore == SelectByPath(photos, active_ingest[1].task.photo_path)
RowAfter == SelectByPath(photos', active_ingest[1].task.photo_path)
\* C22: the ingest thread records embedding_model on a row only after add_or_update
\* of the photo's label returned; when embed_image or add_or_update raises, the
\* embedding_model of the row is what it was, and the photo is among the rows the
\* catch-up query of enqueue_missing_embeddings selects.
C22_EmbeddingRecordedAfterIndexed ==
    [][\A thumb_ok, embed_ok, revive \in BOOLEAN :
          IngestFinish(thumb_ok, embed_ok, revive)
          => /\ \A p \in NewlyEmbedded : p.id \in labels'
             /\ (/\ ~IndexWrite(active_ingest[1], photos, tracked_roots, thumbs, labels,
                                deleted_labels, recent_ingest, thumb_ok, embed_ok,
                                revive).ok
                 /\ RowAfter # None)
                => /\ RowBefore # None
                      => RowAfter[1].embedding_model = RowBefore[1].embedding_model
                   /\ RowAfter[1] \in Range(MissingEmbeddings(photos'))]_vars

\* ---------------------------------------------------------------- C23
\* C23: the read of the Photo row by an ingest task and the writes derived from it
\* are one transaction: from the read until the writes no other writer (another
\* ingest of the same path, a root removal) changes the row of the path, so the row
\* the task read is the row of the catalog at every moment the task holds it.
C23_ReadModifyWriteIsAtomic ==
    active_ingest # None
    => SelectByPath(photos, active_ingest[1].task.photo_path) = active_ingest[1].existing

\* ---------------------------------------------------------------- C24
\* Where the search loop of the request answered in this step ends, from the index
\* the request finds.
LoopOf(r) ==
    SearchLoop(LoopStart(Loaded, Max(0, r.request.offset),
                         Max(1, Min(r.request.limit, MaxPage))),
               photos, r.request.flt, Max(0, r.request.offset),
               Max(1, Min(r.request.limit, MaxPage)), r.request.score,
               QueryTokens(AskedQuery(r)))
\* C24: every photo id of the page a non-empty query gets has a row in the catalog,
\* and every id a search of the loop returned that has no row was handed to
\* delete_many in the pass that saw it: none of them is a live label afterwards.
C24_PageInCatalogStalePruned ==
    [][SearchAnswered
       => /\ Range(response'.rows) \subseteq PhotoIds
          /\ (LoopOf(response').returned \ PhotoIds) \cap labels' = {}]_vars
\* A search over an index that held the labels of a removed root: they were pruned,
\* and the page shows photos of the root that is left.
C24_Witness ==
    /\ response # NoResponse
    /\ response.status = "200"
    /\ AskedQuery(response) # <<>>
    /\ response.rows # <<>>
    /\ deleted_labels # {}
    /\ deleted_labels \cap PhotoIds = {}

\* ---------------------------------------------------------------- C25
\* The live labels with a row that passes the filters of the request and a
\* similarity at or above the keep threshold the loop ended with.
AboveKeep(r, end) ==
    {pid \in end.labels : /\ \E row \in photos : row.id = pid /\ Where(row, r.request.flt)
                          /\ r.request.score[pid] >= end.min_keep[1]}
\* C25: when the search loop stops with a non-empty list of candidates, k has
\* reached the cap or the similarity of the last candidate is below the keep
\* threshold, and the retained semantic hits are all the candidates at or above
\* the keep threshold that the index holds.
C25_StopsCompleteOrCapped ==
    [][SearchAnswered
       => LET end == LoopOf(response') IN
          end.filtered_hits # <<>>
          => /\ \/ end.k >= MaxK
                \/ response'.request.score[end.filtered_hits[Len(end.filtered_hits)]]
                       < end.min_keep[1]
             /\ AboveKeep(response', end) \subseteq Range(end.eligible)]_vars

\* ---------------------------------------------------------------- C26
\* The request for the page after the one of r: the same query and filters from
\* offset + limit on.
Following(r) == [request |-> [r.request EXCEPT !.offset = @ + r.request.limit]]
\* What a request gets from the catalog and the index the request of this step
\* found.
AnswerTo(r) ==
    LibraryRows(Chars(r.request.q), r.request.flt, r.request.offset, r.request.limit,
                r.request.score, photos, Loaded, embedder, now)
\* C26: over one catalog, one index state and one query, a page and the page after
\* it are cuts of one list: both requests get the same total_matches from the same
\* keep threshold, they share no id, and together they are the ids of the combined
\* list from offset to offset + 2 * limit, semantic matches before lexical ones.
C26_PagesAreCutsOfOneList ==
    [][SearchAnswered
       => LET r == response'
              after == AnswerTo(Following(r))
          IN /\ after.total_matches = r.total_matches
             /\ LoopOf(Following(r)).min_keep = LoopOf(r).min_keep
             /\ Range(after.rows) \cap Range(r.rows) = {}
             /\ after.combined = r.combined
             /\ r.combined = r.semantic \o r.lexical
             /\ r.rows \o after.rows
                    = Slice(r.combined, r.request.offset, 2 * r.request.limit)]_vars

\* ---------------------------------------------------------------- C27
\* The breadths the `while True` loop of search passes to knn_query, first to last.
RECURSIVE KnnTried(_, _)
KnnTried(live, k2) ==
    IF k2 <= live \/ k2 <= 1 THEN <<k2>>
    ELSE <<k2>> \o KnnTried(live, Max(1, k2 \div 2))
\* C27: search on a loaded index returns to its caller whatever the breadth asked
\* for: each conflict halves the breadth, which goes down strictly and never below
\* 1; the result is empty only when the index holds nothing or knn_query fails at
\* breadth 1 as well, and has at most min(k, current count) entries.
C27_SearchBacksOff ==
    [][\A k \in Labels :
          (IndexSearch(k) /\ Loaded.ok)
          => LET current == CurrentCount(Loaded.labels, Loaded.deleted)
                 live == Cardinality(Loaded.labels)
                 tried == KnnTried(live, Max(1, Min(k, current)))
             IN /\ observed' = "ok"
                /\ \A i \in 1..Len(tried) : tried[i] >= 1
                /\ \A i \in 1..(Len(tried) - 1) :
                      /\ tried[i] > live
                      /\ tried[i + 1] = Max(1, tried[i] \div 2)
                      /\ tried[i + 1] < tried[i]
                /\ \A order \in Orders :
                      LET out == Search(Loaded.labels, Loaded.deleted, k, order) IN
                      /\ Len(out) <= Min(k, current)
                      /\ out = <<>> => (current = 0 \/ tried[Len(tried)] > live)
                      /\ out # <<>> => Len(out) = tried[Len(tried)]]_vars
\* A loaded index with live labels and a label marked deleted has answered a
\* call: a search as broad as its count backs off before it succeeds.
C27_Witness ==
    /\ loaded
    /\ observed = "ok"
    /\ labels # {}
    /\ deleted_labels # {}
    /\ Len(KnnTried(Cardinality(labels), CurrentCount(labels, deleted_labels))) > 1

\* ---------------------------------------------------------------- C28
\* An index directory written by a run whose PHOTOBROWSE_MAX_ELEMENTS was at the
\* least value: hnsw.bin holds an index of that capacity, below the default of the
\* process that starts now.
SmallIndexInit ==
    /\ PipelineInit
    /\ WebInit
    /\ SplitInit
    /\ WorkerInit
    /\ SideInit
    /\ observed = "none"
    /\ labels = {}
    /\ deleted_labels = {}
    /\ loaded = FALSE
    /\ max_elements = 0
    /\ config = [dim |-> ClipDim, model_id |-> ModelId]
    /\ hnswlib = TRUE
    /\ bin_path \in {Some(BlobOf(S, {}, least_max_elements)) :
                     S \in {T \in SUBSET Labels : Cardinality(T) <= least_max_elements}}
    /\ meta_path = Some(MetaOf(config))

SmallIndexSpec == SmallIndexInit /\ [][IndexNext]_vars

\* C28: a loaded index has at least the default capacity, also when hnsw.bin was
\* saved with less (it is grown on load), and no call on a loaded index (search,
\* add_or_update, delete_many, persist) lowers the capacity.
C28_CapacityAtLeastDefault ==
    [][/\ loaded' => max_elements' >= DefaultMaxElements
       /\ (loaded /\ loaded') => max_elements' >= max_elements]_vars

\* ------------------------------------------------ start and shutdown
\* PhotoIndexer.start() has been called: the ingest thread (_run) and the scanner
\* thread (_run_scans) go from their first line through their loops, callers wait
\* in enqueue() and enqueue_scan_root(), and stop() is called once. Each thread is
\* at "start" (before conn = self._conn()), "test" (at `while not
\* self._stop.is_set()`), "get" (in the get with timeout), "task" or "exited".
ThreadNames == {"worker", "scanner", "main"}
\* connect(self.db_path, check_same_thread=True).
CheckSameThread == TRUE

\* A connection that any thread may use.
PerformedUnchecked(owner, by) == TRUE

\* Whether a method of the connection opened by `owner` is carried out when thread
\* `by` calls it: sqlite3 raises ProgrammingError on a call of another thread.
Performed(owner, by) == ~CheckSameThread \/ owner = by

\* _conn(): the connection of the calling thread, opened at its first call and
\* put on _db_conns.
OpenConn(conns, thread) ==
    IF conns[thread] = "none" THEN [conns EXCEPT ![thread] = "open"] ELSE conns

\* stop(): c.close() for every connection of _db_conns, exceptions ignored.
CloseAll(conns, by) ==
    [t \in ThreadNames |-> IF conns[t] = "open" /\ Performed(t, by) THEN "closed"
                           ELSE conns[t]]

ShutdownInit ==
    /\ PipelineInit
    /\ IndexInit
    /\ WebInit
    /\ SplitInit
    /\ WorkerInit
    /\ observed = "none"
    /\ limiter = None
    /\ threads = [worker |-> "start", scanner |-> "start", stopper |-> "idle",
                  conns |-> [t \in ThreadNames |-> "none"],
                  foreign |-> FALSE, flushes |-> 0]
    /\ flush = None
    /\ scan_wave = None
    /\ monitor = None

shutdown_rest == <<tracked_roots, photos, thumbs, fs, scan_progress, active_scan,
                   active_ingest, second_ingest, search_missing, recent_ingest, scans,
                   events, labels, deleted_labels, observed, index_state, web_state,
                   split_state, worker_state, limiter, flush, monitor,
    scan_wave>>

\* _run: conn = self._conn().
WorkerStart ==
    /\ threads.worker = "start"
    /\ threads' = [threads EXCEPT !.worker = "test",
                                  !.conns = OpenConn(@, "worker")]
    /\ UNCHANGED <<shutdown_rest, stop, q, scan_q, watcher_blocked, scan_blocked>>

\* _run: `while not self._stop.is_set()`.
WorkerTest ==
    /\ threads.worker = "test"
    /\ threads' = [threads EXCEPT !.worker = IF stop THEN "exited" ELSE "get"]
    /\ UNCHANGED <<shutdown_rest, stop, q, scan_q, watcher_blocked, scan_blocked>>

\* _run: self._q.get(timeout=0.2), a task or queue.Empty.
WorkerGet ==
    /\ threads.worker = "get"
    /\ threads' = [threads EXCEPT !.worker = IF q # <<>> THEN "task" ELSE "test"]
    /\ q' = IF q # <<>> THEN Tail(q) ELSE q
    /\ UNCHANGED <<shutdown_rest, stop, scan_q, watcher_blocked, scan_blocked>>

\* _run: _index_one and the bookkeeping after it, on the thread's connection.
WorkerTask ==
    /\ threads.worker = "task"
    /\ threads' = [threads EXCEPT !.worker = "test",
                                  !.foreign = @ \/ ~(threads.conns["worker"] = "open")]
    /\ UNCHANGED <<shutdown_rest, stop, q, scan_q, watcher_blocked, scan_blocked>>

\* _run_scans: conn = self._conn().
ScannerStart ==
    /\ threads.scanner = "start"
    /\ threads' = [threads EXCEPT !.scanner = "test",
                                  !.conns = OpenConn(@, "scanner")]
    /\ UNCHANGED <<shutdown_rest, stop, q, scan_q, watcher_blocked, scan_blocked>>

\* _run_scans: `while not self._stop.is_set()`.
ScannerTest ==
    /\ threads.scanner = "test"
    /\ threads' = [threads EXCEPT !.scanner = IF stop THEN "exited" ELSE "get"]
    /\ UNCHANGED <<shutdown_rest, stop, q, scan_q, watcher_blocked, scan_blocked>>

\* _run_scans: self._scan_q.get(timeout=0.2), a task or queue.Empty.
ScannerGet ==
    /\ threads.scanner = "get"
    /\ threads' = [threads EXCEPT !.scanner = IF scan_q # <<>> THEN "task" ELSE "test"]
    /\ scan_q' = IF scan_q # <<>> THEN Tail(scan_q) ELSE scan_q
    /\ UNCHANGED <<shutdown_rest, stop, q, watcher_blocked, scan_blocked>>

\* _run_scans: the walk of a root with one image, self.enqueue(IndexTask(..)) for
\* it, and the end of the scan.
ScannerWalk ==
    /\ threads.scanner = "task"
    /\ EnqueueReturns(q, IngestQueueMaxsize, stop)
    /\ q' = Enqueue(q, IndexTask("d1/a", 1, "scan"), stop)
    /\ threads' = [threads EXCEPT !.scanner = "test"]
    /\ UNCHANGED <<shutdown_rest, stop, scan_q, watcher_blocked, scan_blocked>>

\* A watcher callback calls enqueue(task) ...
EnqueueCalled ==
    /\ watcher_blocked = None
    /\ watcher_blocked' = Some(IndexTask("d1/a", 1, "watcher"))
    /\ UNCHANGED <<shutdown_rest, stop, q, scan_q, scan_blocked, threads>>

\* ... and leaves it: the put found room, or _stop is set.
EnqueueLeft ==
    /\ watcher_blocked # None
    /\ EnqueueReturns(q, IngestQueueMaxsize, stop)
    /\ q' = Enqueue(q, watcher_blocked[1], stop)
    /\ watcher_blocked' = None
    /\ UNCHANGED <<shutdown_rest, stop, scan_q, scan_blocked, threads>>

\* A request calls enqueue_scan_root(root_id, root_path) ...
EnqueueScanRootCalled ==
    /\ scan_blocked = None
    /\ scan_blocked' = Some(ScanTask(1, "d1"))
    /\ UNCHANGED <<shutdown_rest, stop, q, scan_q, watcher_blocked, threads>>

\* ... and leaves it.
EnqueueScanRootLeft ==
    /\ scan_blocked # None
    /\ EnqueueReturns(scan_q, ScanQueueMaxsize, stop)
    /\ scan_q' = EnqueueScanRoot(scan_q, scan_blocked[1], stop)
    /\ scan_blocked' = None
    /\ UNCHANGED <<shutdown_rest, stop, q, watcher_blocked, threads>>

\* enqueue_missing_embeddings on the thread that starts the application:
\* conn = self._conn().
MainOpen ==
    /\ threads.stopper = "idle"
    /\ threads.conns["main"] = "none"
    /\ threads' = [threads EXCEPT !.conns = OpenConn(@, "main")]
    /\ UNCHANGED <<shutdown_rest, stop, q, scan_q, watcher_blocked, scan_blocked>>

\* stop(): self._stop.set().
StopSet ==
    /\ threads.stopper = "idle"
    /\ stop' = TRUE
    /\ threads' = [threads EXCEPT !.stopper = "join_worker"]
    /\ UNCHANGED <<shutdown_rest, q, scan_q, watcher_blocked, scan_blocked>>

\* stop(): self._worker.join(timeout=timeout_s) returns: the thread has ended, or
\* the 2 seconds have passed with the thread inside a task (the loop test and the
\* get with its 0.2 seconds end well within the timeout).
JoinWorker ==
    /\ threads.stopper = "join_worker"
    /\ threads.worker \in {"exited", "task"}
    /\ threads' = [threads EXCEPT !.stopper = "join_scanner"]
    /\ UNCHANGED <<shutdown_rest, stop, q, scan_q, watcher_blocked, scan_blocked>>

\* stop(): self._scanner.join(timeout=timeout_s) returns, in the same way.
JoinScanner ==
    /\ threads.stopper = "join_scanner"
    /\ threads.scanner \in {"exited", "task"}
    /\ threads' = [threads EXCEPT !.stopper = "persist"]
    /\ UNCHANGED <<shutdown_rest, stop, q, scan_q, watcher_blocked, scan_blocked>>

\* stop(): vector_index.persist().
StopPersist ==
    /\ threads.stopper = "persist"
    /\ threads' = [threads EXCEPT !.stopper = "close", !.flushes = @ + 1]
    /\ UNCHANGED <<shutdown_rest, stop, q, scan_q, watcher_blocked, scan_blocked>>

\* stop(): the close loop over _db_conns, on the thread that called stop().
StopClose ==
    /\ threads.stopper = "close"
    /\ threads' = [threads EXCEPT
                     !.stopper = "done",
                     !.conns = CloseAll(@, "main"),
                     !.foreign = @ \/ \E t \in ThreadNames \ {"main"} :
                                         /\ threads.conns[t] = "open"
                                         /\ Performed(t, "main")]
    /\ UNCHANGED <<shutdown_rest, stop, q, scan_q, watcher_blocked, scan_blocked>>

ShutdownNext ==
    \/ WorkerStart
    \/ WorkerTest
    \/ WorkerGet
    \/ WorkerTask
    \/ ScannerStart
    \/ ScannerTest
    \/ ScannerGet
    \/ ScannerWalk
    \/ EnqueueCalled
    \/ EnqueueLeft
    \/ EnqueueScanRootCalled
    \/ EnqueueScanRootLeft
    \/ MainOpen
    \/ StopSet
    \/ JoinWorker
    \/ JoinScanner
    \/ StopPersist
    \/ StopClose

ShutdownSpec == ShutdownInit /\ [][ShutdownNext]_vars

\* Every thread runs on, every timeout passes; nothing makes stop() be called.
ShutdownFairness ==
    /\ WF_vars(WorkerStart) /\ WF_vars(WorkerTest) /\ WF_vars(WorkerGet)
    /\ WF_vars(WorkerTask)
    /\ WF_vars(ScannerStart) /\ WF_vars(ScannerTest) /\ WF_vars(ScannerGet)
    /\ WF_vars(ScannerWalk)
    /\ WF_vars(EnqueueLeft) /\ WF_vars(EnqueueScanRootLeft)
    /\ WF_vars(JoinWorker) /\ WF_vars(JoinScanner)
    /\ WF_vars(StopPersist) /\ WF_vars(StopClose)

FairShutdownSpec == ShutdownSpec /\ ShutdownFairness

FlushAfterThreads ==
    threads'.flushes > threads.flushes =>
        (threads.worker = "exited" /\ threads.scanner = "exited")
\* A thread that has seen the flag at its loop test stays out of its loop, and its
\* queue loses no task from then on.
NoDequeueOnceObserved ==
    /\ threads.worker = "exited" =>
           (threads'.worker = "exited" /\ Len(q') >= Len(q))
    /\ threads.scanner = "exited" =>
           (threads'.scanner = "exited" /\ Len(scan_q') >= Len(scan_q))
\* C30: once _stop is set, a thread that has seen the flag dequeues no further
\* task, every caller waiting in enqueue() or enqueue_scan_root() returns, both
\* threads end, and stop() flushes the vector index once, after the threads have
\* ended.
C30_ShutdownStopsThreadsThenFlushes ==
    /\ [][NoDequeueOnceObserved /\ FlushAfterThreads /\ threads'.flushes <= 1]_vars
    /\ stop ~> (threads.worker = "exited")
    /\ stop ~> (threads.scanner = "exited")
    /\ (stop /\ watcher_blocked # None) ~> (watcher_blocked = None)
    /\ (stop /\ scan_blocked # None) ~> (scan_blocked = None)
    /\ stop ~> (threads.flushes = 1)

\* ------------------------------------------------ persist interval
\* The ingest thread's calls of vector_index.persist() after add_or_update, with
\* a clock of whole seconds, and the call made by stop().
\* self._persist_interval_s = 5.0
PersistInterval == 5
MaxAdds == 4
MaxPersistClock == 12

\* `if now - self._last_persist >= self._persist_interval_s`
PersistDue(last_persist, t) == t - last_persist >= PersistInterval

\* The lines after vector_index.add_or_update(photo_id, vec): now = time.time(),
\* then persist() when it is due. ok: persist() returned; when it raises,
\* _index_one ends there and self._last_persist = now is not reached.
AfterAddOrUpdate(f, ok) ==
    IF PersistDue(f.last_persist, f.clock)
    THEN [f EXCEPT !.adds = @ + 1,
                   !.calls = Append(@, f.clock),
                   !.last_persist = IF ok THEN f.clock ELSE @]
    ELSE [f EXCEPT !.adds = @ + 1]

\* self._last_persist = 0.0, and time.time() is far more than 5 seconds.
FlushInit ==
    /\ PipelineInit
    /\ IndexInit
    /\ WebInit
    /\ SplitInit
    /\ WorkerInit
    /\ observed = "none"
    /\ limiter = None
    /\ threads = None
    /\ monitor = None
    /\ scan_wave = None
    /\ flush = [clock |-> PersistInterval, last_persist |-> 0, adds |-> 0,
                calls |-> <<>>, stopped |-> FALSE, stop_calls |-> 0]

flush_rest == <<pipeline_state, index_state, web_state, split_state, worker_state,
                labels, deleted_labels, observed, limiter, threads, monitor,
    scan_wave>>

\* _index_one on an unchanged file that needs its embedding (lines 605-613).
EmbedUnchanged(ok) ==
    /\ flush.adds < MaxAdds
    /\ flush' = AfterAddOrUpdate(flush, ok)
    /\ UNCHANGED flush_rest

\* _index_one on a new or changed file (lines 656-662).
EmbedChanged(ok) ==
    /\ flush.adds < MaxAdds
    /\ flush' = AfterAddOrUpdate(flush, ok)
    /\ UNCHANGED flush_rest

\* stop(): vector_index.persist() when a vector index is configured
\* (EmbedderConfigured), whatever self._last_persist is.
GracefulStop ==
    /\ ~flush.stopped
    /\ flush' = [flush EXCEPT !.stopped = TRUE,
                              !.stop_calls = IF EmbedderConfigured THEN @ + 1 ELSE @]
    /\ UNCHANGED flush_rest

\* A second passes.
PersistClockTick ==
    /\ flush.clock < MaxPersistClock
    /\ flush' = [flush EXCEPT !.clock = @ + 1]
    /\ UNCHANGED flush_rest

FlushNext ==
    \/ \E ok \in BOOLEAN : EmbedUnchanged(ok)
    \/ \E ok \in BOOLEAN : EmbedChanged(ok)
    \/ GracefulStop
    \/ PersistClockTick

FlushSpec == FlushInit /\ [][FlushNext]_vars

\* ---------------------------------------------------------------- C31
\* Any two persist() calls of the ingest thread are at least PersistInterval apart.
CallsSpaced(calls) ==
    \A i, j \in DOMAIN calls : i < j => calls[j] - calls[i] >= PersistInterval
\* C31: any two persist() calls of the ingest thread are at least 5 seconds
\* apart, an add_or_update within 5 seconds of the last flush is followed by no
\* persist(), and stop() calls persist() whenever it runs.
C31_IngestPersistsOncePerInterval ==
    [][/\ CallsSpaced(flush'.calls)
       /\ (flush'.adds > flush.adds /\ ~PersistDue(flush.last_persist, flush.clock))
              => flush'.calls = flush.calls
       /\ (flush'.stopped /\ ~flush.stopped)
              => flush'.stop_calls = flush.stop_calls + 1]_vars

\* ------------------------------------------------ liveness monitor
\* The monitor thread of web.py with the other producers of tasks and the two
\* consumers: two tracked roots with one photo each that has no embedding yet,
\* drives that are unplugged and plugged back.
MonitorRoots == {1, 2}
Statuses == {"unknown", "online", "offline"}
RootPath(root_id) == IF root_id = 1 THEN "d1" ELSE "d2"
PhotoOf(root_id) == IF root_id = 1 THEN "d1/a" ELSE "d2/b"

\* One row of the monitor's pass: the status and last_error it writes. prev is
\* the status in the row as the pass read it.
MonitorRow(m, root_id) ==
    IF m.exists[root_id]
    THEN [m EXCEPT !.status[root_id] = "online", !.last_error[root_id] = FALSE]
    ELSE [m EXCEPT !.status[root_id] = "offline"]

\* `if prev_status != "online": indexer.enqueue_scan_root(root_id, p)`, in the
\* branch of an existing path.
ScanWanted(m, root_id) == m.exists[root_id] /\ m.rows[1][root_id] # "online"

\* The catalog as an earlier run left it, the drives plugged or not.
MonitorInit ==
    /\ PipelineInit
    /\ IndexInit
    /\ WebInit
    /\ SplitInit
    /\ WorkerInit
    /\ observed = "none"
    /\ limiter = None
    /\ threads = None
    /\ flush = None
    /\ scan_wave = None
    /\ \E st \in [MonitorRoots -> Statuses], ex \in [MonitorRoots -> BOOLEAN] :
          monitor = [status |-> st, last_error |-> [r \in MonitorRoots |-> FALSE],
                     exists |-> ex, rows |-> None, todo |-> <<>>, waiting |-> None]

monitor_rest == <<tracked_roots, photos, thumbs, fs, scan_progress, active_scan,
                  active_ingest, second_ingest, watcher_blocked, scan_blocked,
                  search_missing, recent_ingest, scans, events, labels,
                  deleted_labels, observed, index_state, web_state, split_state,
                  worker_state, limiter, threads, flush, scan_wave>>

\* _monitor_loop: SELECT id, path, status FROM tracked_roots. The loop is left
\* once shutdown has begun.
MonitorSelect ==
    /\ ~stop
    /\ monitor.todo = <<>>
    /\ monitor.waiting = None
    /\ monitor' = [monitor EXCEPT !.rows = Some(monitor.status), !.todo = <<1, 2>>]
    /\ UNCHANGED <<monitor_rest, stop, q, scan_q>>

\* _monitor_loop: the body of `for r in rows` for the next row. enqueue_scan_root
\* puts at once, waits for room, or returns without a put when _stop is set.
MonitorRoot ==
    /\ monitor.todo # <<>>
    /\ monitor.waiting = None
    /\ LET root_id == Head(monitor.todo)
           m == [MonitorRow(monitor, root_id) EXCEPT !.todo = Tail(@)]
           task == ScanTask(root_id, RootPath(root_id))
       IN IF ~ScanWanted(monitor, root_id) \/ stop
          THEN monitor' = m /\ scan_q' = scan_q
          ELSE IF QueueFull(scan_q, ScanQueueMaxsize)
          THEN monitor' = [m EXCEPT !.waiting = Some(root_id)] /\ scan_q' = scan_q
          ELSE monitor' = m /\ scan_q' = EnqueueScanRoot(scan_q, task, stop)
    /\ UNCHANGED <<monitor_rest, stop, q>>

\* The monitor leaves enqueue_scan_root: the put found room, or _stop is set.
MonitorUnblocked ==
    /\ monitor.waiting # None
    /\ EnqueueReturns(scan_q, ScanQueueMaxsize, stop)
    /\ scan_q' = EnqueueScanRoot(scan_q, ScanTask(monitor.waiting[1],
                                                 RootPath(monitor.waiting[1])), stop)
    /\ monitor' = [monitor EXCEPT !.waiting = None]
    /\ UNCHANGED <<monitor_rest, stop, q>>

\* roots_scan_all, one turn of its loop: `if p.exists(): enqueue_scan_root(..)`.
ScanAllRoot(root_id) ==
    /\ ~stop
    /\ monitor.exists[root_id]
    /\ ~QueueFull(scan_q, ScanQueueMaxsize)
    /\ scan_q' = EnqueueScanRoot(scan_q, ScanTask(root_id, RootPath(root_id)), stop)
    /\ UNCHANGED <<monitor_rest, monitor, stop, q>>

\* _catchup_loop -> enqueue_missing_embeddings: the photos without an embedding
\* of the active model in id order, put_nowait until queue.Full.
CatchUpPass ==
    /\ ~stop
    /\ ~QueueFull(q, IngestQueueMaxsize)
    /\ LET room == IngestQueueMaxsize - Len(q)
           n == Min(room, 2)
       IN q' = q \o [i \in 1..n |-> IndexTask(PhotoOf(i), i, "catchup")]
    /\ UNCHANGED <<monitor_rest, monitor, stop, scan_q>>

\* _run_scans, one task: last_error=NULL; a missing root path raises, and the
\* except block writes status='offline' and last_error; else the walk hands the
\* photo of the root to enqueue().
ScannerTakes ==
    /\ scan_q # <<>>
    /\ LET root_id == Head(scan_q).root_id IN
       IF ~monitor.exists[root_id]
       THEN /\ monitor' = [monitor EXCEPT !.status[root_id] = "offline",
                                         !.last_error[root_id] = TRUE]
            /\ q' = q
       ELSE /\ EnqueueReturns(q, IngestQueueMaxsize, stop)
            /\ monitor' = [monitor EXCEPT !.last_error[root_id] = FALSE]
            /\ q' = Enqueue(q, IndexTask(PhotoOf(root_id), root_id, "scan"), stop)
    /\ scan_q' = Tail(scan_q)
    /\ UNCHANGED <<monitor_rest, stop>>

\* _run, one task: _index_one raises when the file cannot be stat'ed and the root
\* path is missing, and the except block writes last_error.
IngestTakes ==
    /\ q # <<>>
    /\ q' = Tail(q)
    /\ monitor' = IF monitor.exists[Head(q).root_id] THEN monitor
                  ELSE [monitor EXCEPT !.last_error[Head(q).root_id] = TRUE]
    /\ UNCHANGED <<monitor_rest, stop, scan_q>>

\* A drive is unplugged or plugged back.
Unplug(root_id) ==
    /\ monitor.exists[root_id]
    /\ monitor' = [monitor EXCEPT !.exists[root_id] = FALSE]
    /\ UNCHANGED <<monitor_rest, stop, q, scan_q>>

Replug(root_id) ==
    /\ ~monitor.exists[root_id]
    /\ monitor' = [monitor EXCEPT !.exists[root_id] = TRUE]
    /\ UNCHANGED <<monitor_rest, stop, q, scan_q>>

\* _shutdown: monitor_stop.set(), monitor_thread.join(timeout=2.0), later
\* indexer.stop(). The monitor is between two passes, or the join ran out while
\* it waits in enqueue_scan_root.
ShutdownBegins ==
    /\ ~stop
    /\ monitor.todo = <<>> \/ monitor.waiting # None
    /\ stop' = TRUE
    /\ UNCHANGED <<monitor_rest, monitor, q, scan_q>>

MonitorNext ==
    \/ MonitorSelect
    \/ MonitorRoot
    \/ MonitorUnblocked
    \/ \E root_id \in MonitorRoots : ScanAllRoot(root_id)
    \/ CatchUpPass
    \/ ScannerTakes
    \/ IngestTakes
    \/ \E root_id \in MonitorRoots : Unplug(root_id)
    \/ \E root_id \in MonitorRoots : Replug(root_id)
    \/ ShutdownBegins

MonitorSpec == MonitorInit /\ [][MonitorNext]_vars

\* ---------------------------------------------------------------- C32
\* The tasks a step has put on a queue.
Put(queue, queue2) ==
    IF Len(queue2) > Len(queue) THEN {queue2[i] : i \in (Len(queue) + 1)..Len(queue2)}
    ELSE {}
\* C32: no ScanTask and no IndexTask is put on a queue for a root whose persisted
\* status is offline once the step is done (the monitor writes 'online' before
\* it enqueues).
C32_NothingEnqueuedForOfflineRoot ==
    [][\A task \in Put(q, q') \cup Put(scan_q, scan_q') :
          monitor'.status[task.root_id] # "offline"]_vars

\* ---------------------------------------------------------------- C33
\* The root whose row the monitor handles in this step.
Handled(root_id) ==
    /\ monitor.todo # <<>>
    /\ Head(monitor.todo) = root_id
    /\ monitor'.todo = Tail(monitor.todo)
\* The monitor's call of enqueue_scan_root for the root has put its task, or waits
\* for room.
ScanCalled(root_id) ==
    \/ scan_q' = Append(scan_q, ScanTask(root_id, RootPath(root_id)))
    \/ scan_q' = scan_q /\ monitor'.waiting = Some(root_id)
\* What the claim has the monitor do with the row of a root whose status was
\* `status` when the monitor looked at its path.
HandledAsStated(root_id, status) ==
    IF monitor.exists[root_id] /\ status # "online"
    THEN /\ monitor'.status[root_id] = "online"
         /\ ~monitor'.last_error[root_id]
         /\ ScanCalled(root_id)
    ELSE IF monitor.exists[root_id]
    THEN /\ monitor'.status[root_id] = "online"
         /\ scan_q' = scan_q /\ monitor'.waiting = None
    ELSE /\ monitor'.status[root_id] = "offline"
         /\ scan_q' = scan_q /\ monitor'.waiting = None
\* The monitor's waiting call of enqueue_scan_root ends with the put.
WaitEndsWithPut ==
    (monitor.waiting # None /\ monitor'.waiting = None) =>
        scan_q' = Append(scan_q, ScanTask(monitor.waiting[1],
                                          RootPath(monitor.waiting[1])))
\* C33: for the row it handles the monitor sets a root with an existing path and
\* a persisted status other than online to online, clears last_error and
\* enqueues one ScanTask (its waiting call ends with the put); it enqueues
\* nothing for an online root with an existing path; it sets a root without its
\* path to offline and enqueues nothing.
C33_MonitorScansReturningRoots ==
    [][/\ \A root_id \in MonitorRoots :
             Handled(root_id) => HandledAsStated(root_id, monitor.status[root_id])
       /\ WaitEndsWithPut]_vars

\* ------------------------------------------------ files that cannot be stat'ed
\* The ingest thread with files that are deleted and drives that are unplugged:
\* fs holds the directories of the roots too, 0 for a path that does not exist.
\* Root 1 is d1 and root 2 is d2; a scan of d1 has enumerated and queued its file.

\* _index_one raising at once: path.stat() raises OSError and task.root_path does
\* not exist either.
StatRaisesNever(files, task) == FALSE

\* `except OSError as e: if not task.root_path.exists(): raise e`
StatRaises(files, task) ==
    files[task.photo_path] = 0 /\ files[DirOf(task.photo_path)] = 0

\* The except block of _run after _record_failure: the rate limit and the UPDATE
\* of last_error, on the state of the limiter.
LastErrorLimited(l, root_id) ==
    IF PassesLimit(l.last_root_error_at, root_id, l.clock)
    THEN PersistError([l EXCEPT !.ingest = Passed(root_id, l.clock)], "ingest")
    ELSE l

UnreadableInit ==
    /\ tracked_roots = [r \in {1, 2} |->
                          [path |-> IF r = 1 THEN "d1" ELSE "d2",
                           scan_started |-> r = 1,
                           scan_finished |-> "never"]]
    /\ photos = {}
    /\ thumbs = {}
    /\ fs = [p \in Paths \cup Dirs |-> 1]
    /\ q = <<IndexTask("d1/a", 1, "scan")>>
    /\ scan_q = <<>>
    /\ stop = FALSE
    /\ scan_progress = [r \in {1} |-> [NewProgress EXCEPT !.found = 1, !.enqueued = 1,
                                                          !.scan_done = TRUE]]
    /\ active_scan = None
    /\ active_ingest = None
    /\ second_ingest = None
    /\ watcher_blocked = None
    /\ scan_blocked = None
    /\ search_missing = None
    /\ recent_ingest = <<>>
    /\ scans = 0
    /\ events = 0
    /\ IndexInit
    /\ WebInit
    /\ SplitInit
    /\ WorkerInit
    /\ observed = "none"
    /\ limiter = [clock |-> ErrorInterval + 1,
                  last_root_error_at |-> [r \in LimiterRoots |-> 0],
                  scanner |-> None,
                  ingest |-> None,
                  persisted_at |-> [r \in LimiterRoots |-> <<>>]]
    /\ threads = None
    /\ flush = None
    /\ scan_wave = None
    /\ monitor = None

unreadable_rest == <<scan_q, stop, active_scan, active_ingest, second_ingest,
                     watcher_blocked, scan_blocked, search_missing, scans,
                     index_state, web_state, split_state, ingest_mark, scan_mark,
                     threads, flush, monitor,
    scan_wave>>

\* _run, one task: _index_one and the bookkeeping of its outcome, the except
\* block when it raised.
IngestTask(embed_ok) ==
    /\ q # <<>>
    /\ LET task == Head(q)
           root_id == task.root_id
           ai == IndexRead(task, fs, photos, thumbs, labels)
           r == IF StatRaises(fs, task)
                THEN [photos |-> photos, thumbs |-> thumbs, labels |-> labels,
                      deleted |-> deleted_labels, recent |-> recent_ingest,
                      ok |-> FALSE, wrote |-> FALSE]
                ELSE IndexWrite(ai, photos, tracked_roots, thumbs, labels,
                                deleted_labels, recent_ingest, TRUE, embed_ok, TRUE)
           f == RecordFailure(failed_total, root_id, task.photo_path)
           progress1 == IF r.ok THEN CountProcessed(scan_progress, root_id)
                        ELSE FlagErrors(scan_progress, root_id)
       IN /\ r.ok \/ failed_total < MaxFailed
          /\ photos' = r.photos
          /\ thumbs' = r.thumbs
          /\ labels' = r.labels
          /\ deleted_labels' = r.deleted
          /\ recent_ingest' = r.recent
          /\ scan_progress' = progress1
          /\ failed_total' = IF r.ok THEN failed_total ELSE f.failed_total
          /\ last_failed' = IF r.ok THEN last_failed ELSE f.last_failed
          /\ limiter' = IF r.ok THEN limiter ELSE LastErrorLimited(limiter, root_id)
          /\ tracked_roots' = IF r.ok
                              THEN MaybeMarkScanFinished(tracked_roots, progress1, root_id)
                              ELSE tracked_roots
          /\ observed' = IF ~r.ok THEN "raised"
                         ELSE IF ai.st = 0 THEN "unreadable" ELSE "ok"
    /\ q' = Tail(q)
    /\ UNCHANGED <<unreadable_rest, fs, events>>

\* The watcher reports a path and its callback puts the task.
WatcherPut(path) ==
    /\ events < MaxEvents
    /\ ~QueueFull(q, IngestQueueMaxsize)
    /\ q' = Enqueue(q, IndexTask(path, IF path = "d1/a" THEN 1 ELSE 2, "watcher"), stop)
    /\ events' = events + 1
    /\ UNCHANGED <<unreadable_rest, tracked_roots, photos, thumbs, labels,
                   deleted_labels, recent_ingest, scan_progress, failed_total,
                   last_failed, limiter, observed, fs>>

\* A file is deleted.
FileDeleted(path) ==
    /\ fs[path] # 0
    /\ fs' = [fs EXCEPT ![path] = 0]
    /\ UNCHANGED <<unreadable_rest, tracked_roots, photos, thumbs, labels,
                   deleted_labels, recent_ingest, scan_progress, failed_total,
                   last_failed, limiter, observed, q, events>>

\* The drive of a root is unplugged: the root path and the files below it are gone.
RootUnplugged(dir) ==
    /\ fs[dir] # 0
    /\ fs' = [p \in DOMAIN fs |-> IF p = dir \/ (p \in Paths /\ DirOf(p) = dir)
                                  THEN 0 ELSE fs[p]]
    /\ UNCHANGED <<unreadable_rest, tracked_roots, photos, thumbs, labels,
                   deleted_labels, recent_ingest, scan_progress, failed_total,
                   last_failed, limiter, observed, q, events>>

\* A second passes.
UnreadableClockTick ==
    /\ limiter.clock < MaxClock
    /\ limiter' = [limiter EXCEPT !.clock = @ + 1]
    /\ UNCHANGED <<unreadable_rest, tracked_roots, photos, thumbs, labels,
                   deleted_labels, recent_ingest, scan_progress, failed_total,
                   last_failed, observed, q, fs, events>>

UnreadableNext ==
    \/ \E embed_ok \in BOOLEAN : IngestTask(embed_ok)
    \/ \E path \in Paths : WatcherPut(path)
    \/ \E path \in Paths : FileDeleted(path)
    \/ \E dir \in Dirs : RootUnplugged(dir)
    \/ UnreadableClockTick

UnreadableSpec == UnreadableInit /\ [][UnreadableNext]_vars

\* ---------------------------------------------------------------- C34
\* The ingest thread takes a task whose file cannot be stat'ed in this step.
TakesUnreadable == q # <<>> /\ q' = Tail(q) /\ fs[Head(q).photo_path] = 0
\* Nothing is written to the catalog, the thumbnails, the index or the history.
NoWrite ==
    /\ photos' = photos /\ thumbs' = thumbs /\ labels' = labels
    /\ deleted_labels' = deleted_labels /\ recent_ingest' = recent_ingest
\* C34: a task whose file cannot be stat'ed ends without a write; with the root
\* path in place it is no failure and counts as processed; with the root path
\* gone failed_total goes up by one, the progress of the root gets had_errors,
\* processed stays, and last_error is persisted when the rate limit lets it pass.
C34_UnreadableFileTransientOrRootFailure ==
    [][TakesUnreadable =>
        LET root_id == Head(q).root_id
            counted == root_id \in DOMAIN scan_progress
        IN /\ NoWrite
           /\ fs[DirOf(Head(q).photo_path)] # 0 =>
                 /\ failed_total' = failed_total /\ last_failed' = last_failed
                 /\ limiter' = limiter
                 /\ counted =>
                       /\ scan_progress'[root_id].processed
                             = scan_progress[root_id].processed + 1
                       /\ scan_progress'[root_id].had_errors
                             = scan_progress[root_id].had_errors
           /\ fs[DirOf(Head(q).photo_path)] = 0 =>
                 /\ failed_total' = failed_total + 1
                 /\ counted =>
                       /\ scan_progress'[root_id].had_errors
                       /\ scan_progress'[root_id].processed
                             = scan_progress[root_id].processed
                 /\ limiter'.persisted_at[root_id] =
                       IF limiter.clock - limiter.last_root_error_at[root_id]
                            > ErrorInterval
                       THEN Append(limiter.persisted_at[root_id], limiter.clock)
                       ELSE limiter.persisted_at[root_id]]_vars
\* The file of a task was gone with its root in place, and later a task of the
\* same root failed because the drive was unplugged.
C34_Witness ==
    /\ observed = "raised"
    /\ fs["d1"] = 0
    /\ failed_total = 1
    /\ scan_progress[1].had_errors
    /\ scan_progress[1].processed = 1
    /\ photos = {}
    /\ limiter.persisted_at[1] # <<>>

\* ------------------------------------------------ order of the ingest tasks
\* _index_one applied to the tasks of a queue one after the other, on a file
\* system that does not change, with thumbnails and embeddings that succeed.
\* Root 1 is d1, root 2 is d2, and root 3 is the directory that holds both (the
\* application lets a directory and a directory inside it be tracked at once),
\* so a file is reported for its own root and for root 3.
MaxTasks == 3
ConvergeTasks ==
    {IndexTask(path, root_id, "watcher") :
        path \in Paths, root_id \in {1, 2, 3}} \
    {IndexTask("d1/a", 2, "watcher"), IndexTask("d2/b", 1, "watcher")}
TaskSeqs == UNION {[1..n -> ConvergeTasks] : n \in 1..MaxTasks}

\* The catalog, the thumbnails and the index as _index_one works on them.
Stores(db, th, lb, dl, rc) ==
    [photos |-> db, thumbs |-> th, labels |-> lb, deleted |-> dl, recent |-> rc]

\* _index_one(task) on the stores, nothing failing.
IndexOne(st, task, files, roots) ==
    LET ai == IndexRead(task, files, st.photos, st.thumbs, st.labels)
        r == IndexWrite(ai, st.photos, roots, st.thumbs, st.labels, st.deleted,
                        st.recent, TRUE, TRUE, TRUE)
    IN Stores(r.photos, r.thumbs, r.labels, r.deleted, r.recent)

\* _run over the tasks of a queue in their order.
RECURSIVE IndexAll(_, _, _, _)
IndexAll(st, tasks, files, roots) ==
    IF tasks = <<>> THEN st
    ELSE IndexAll(IndexOne(st, Head(tasks), files, roots), Tail(tasks), files, roots)

ConvergeInit ==
    /\ tracked_roots = [r \in {1, 2, 3} |->
                          [path |-> IF r = 1 THEN "d1" ELSE IF r = 2 THEN "d2" ELSE ".",
                           scan_started |-> FALSE, scan_finished |-> "never"]]
    /\ photos = {}
    /\ thumbs = {}
    /\ fs = [p \in Paths |-> 1]
    /\ q \in TaskSeqs
    /\ scan_q = <<>>
    /\ stop = FALSE
    /\ scan_progress = <<>>
    /\ active_scan = None
    /\ active_ingest = None
    /\ second_ingest = None
    /\ watcher_blocked = None
    /\ scan_blocked = None
    /\ search_missing = None
    /\ recent_ingest = <<>>
    /\ scans = 0
    /\ events = 0
    /\ IndexInit
    /\ WebInit
    /\ SplitInit
    /\ WorkerInit
    /\ SideInit
    /\ observed = "none"

\* _run: the next task of the queue goes through _index_one.
ConvergeIngest ==
    /\ q # <<>>
    /\ LET st == IndexOne(Stores(photos, thumbs, labels, deleted_labels, recent_ingest),
                          Head(q), fs, tracked_roots)
       IN /\ photos' = st.photos
          /\ thumbs' = st.thumbs
          /\ labels' = st.labels
          /\ deleted_labels' = st.deleted
          /\ recent_ingest' = st.recent
    /\ q' = Tail(q)
    /\ UNCHANGED <<unit_state, tracked_roots, fs, scan_q, stop, scan_progress,
                   active_scan, active_ingest, second_ingest, watcher_blocked,
                   scan_blocked, search_missing, scans, events, observed>>

ConvergeSpec == ConvergeInit /\ [][ConvergeIngest]_vars

\* ---------------------------------------------------------------- C35
\* The tasks of a queue in every order.
Reordered(tasks) ==
    {[i \in 1..Len(tasks) |-> tasks[f[i]]] :
        f \in {g \in [1..Len(tasks) -> 1..Len(tasks)] :
                  \A i, j \in 1..Len(tasks) : g[i] = g[j] => i = j}}
\* The stores without the photo ids: what is known of each path.
Steady(st) ==
    {[path |-> p.path, root_id |-> p.root_id, sig |-> p.sig, has_wh |-> p.has_wh,
      embedding_model |-> p.embedding_model, thumb |-> p.id \in st.thumbs,
      label |-> p.id \in st.labels] : p \in st.photos}
\* C35: from the stores as they are, the tasks still queued lead to the same
\* catalog, thumbnails and index (photo ids aside) in whatever order they are
\* processed, and processing any of them once more after that changes nothing.
C35_IngestOrderDoesNotMatter ==
    LET st == Stores(photos, thumbs, labels, deleted_labels, recent_ingest)
        done == IndexAll(st, q, fs, tracked_roots)
    IN /\ \A tasks \in Reordered(q) :
             Steady(IndexAll(st, tasks, fs, tracked_roots)) = Steady(done)
       /\ \A i \in 1..Len(q) :
             LET again == IndexOne(done, q[i], fs, tracked_roots)
             IN /\ again.photos = done.photos /\ again.thumbs = done.thumbs
                /\ again.labels = done.labels /\ again.deleted = done.deleted

\* ------------------------------------------------ lock of the vector index
\* The one VectorIndex of the application (web.py line 76) called from the
\* ingest thread, a request thread and the thread that shuts down. Each thread is
\* "idle", at "ensure" (before `with self._lock` in _ensure_loaded), "loading"
\* (in _ensure_loaded with the lock, the index not loaded yet), "between"
\* (_ensure_loaded has returned) or "inside" (in the `with self._lock` block of
\* its method, at the hnswlib index).
LockThreads == {"ingest", "request", "shutdown"}
OpsOf(thread) ==
    IF thread = "ingest" THEN {"add_or_update", "persist"}
    ELSE IF thread = "request" THEN {"search", "delete_many"}
    ELSE {"persist"}

\* A lock that any thread gets at any time.
AcquiresAlways(owner, thread) == TRUE

\* threading.RLock(): free, or held by the thread itself.
Acquires(owner, thread) == owner = None \/ owner = Some(thread)

LockInit ==
    /\ PipelineInit
    /\ IndexInit
    /\ WebInit
    /\ SplitInit
    /\ WorkerInit
    /\ observed = "none"
    /\ limiter = None
    /\ flush = None
    /\ scan_wave = None
    /\ monitor = None
    /\ threads = [at |-> [t \in LockThreads |-> "idle"],
                  op |-> [t \in LockThreads |-> "none"],
                  owner |-> None, inits |-> 0]

lock_rest == <<pipeline_state, labels, deleted_labels, observed, max_elements, config,
               hnswlib, bin_path, meta_path, web_state, split_state, worker_state,
               limiter, flush, monitor,
    scan_wave>>

\* A thread calls a method of the index: its first line is self._ensure_loaded().
LockCall(thread, method) ==
    /\ threads.at[thread] = "idle"
    /\ threads' = [threads EXCEPT !.at[thread] = "ensure", !.op[thread] = method]
    /\ UNCHANGED <<lock_rest, loaded>>

\* _ensure_loaded: `with self._lock: if self._loaded: return`, or on into the load.
EnsureEnter(thread) ==
    /\ threads.at[thread] = "ensure"
    /\ Acquires(threads.owner, thread)
    /\ threads' = IF loaded THEN [threads EXCEPT !.at[thread] = "between"]
                  ELSE [threads EXCEPT !.at[thread] = "loading",
                                       !.owner = Some(thread)]
    /\ UNCHANGED <<lock_rest, loaded>>

\* _ensure_loaded: the index is created or loaded, self._loaded = True, the lock
\* is released.
EnsureLoads(thread) ==
    /\ threads.at[thread] = "loading"
    /\ loaded' = TRUE
    /\ threads' = [threads EXCEPT !.at[thread] = "between", !.owner = None,
                                  !.inits = @ + 1]
    /\ UNCHANGED lock_rest

\* _ensure_loaded raises (hnswlib missing, meta.json unreadable): the lock is
\* released, nothing is loaded, the method ends.
EnsureRaises(thread) ==
    /\ threads.at[thread] = "loading"
    /\ threads' = [threads EXCEPT !.at[thread] = "idle", !.op[thread] = "none",
                                  !.owner = None]
    /\ UNCHANGED <<lock_rest, loaded>>

\* The method's own `with self._lock:`.
LockEnter(thread) ==
    /\ threads.at[thread] = "between"
    /\ Acquires(threads.owner, thread)
    /\ threads' = [threads EXCEPT !.at[thread] = "inside", !.owner = Some(thread)]
    /\ UNCHANGED <<lock_rest, loaded>>

\* The block ends, by return or by an exception.
LockLeave(thread) ==
    /\ threads.at[thread] = "inside"
    /\ threads' = [threads EXCEPT !.at[thread] = "idle", !.op[thread] = "none",
                                  !.owner = None]
    /\ UNCHANGED <<lock_rest, loaded>>

LockNext ==
    \E thread \in LockThreads :
        \/ \E method \in OpsOf(thread) : LockCall(thread, method)
        \/ EnsureEnter(thread)
        \/ EnsureLoads(thread)
        \/ EnsureRaises(thread)
        \/ LockEnter(thread)
        \/ LockLeave(thread)

LockSpec == LockInit /\ [][LockNext]_vars

\* ---------------------------------------------------------------- C36
\* The threads that are at the hnswlib index or creating it.
AtIndex == {t \in LockThreads : threads.at[t] \in {"loading", "inside"}}
\* C36: a thread is at the index only while it holds the lock, no two threads
\* are there at once, and the index is created at most once however many threads
\* make the first call.
C36_OneThreadInsideIndex ==
    /\ Cardinality(AtIndex) <= 1
    /\ \A t \in AtIndex : threads.owner = Some(t)
    /\ threads.inits <= 1
    /\ threads.inits = 1 <=> loaded
\* The ingest thread made the first call and is inside add_or_update; the request
\* thread, which called search before the index was loaded, has come through
\* _ensure_loaded without loading again and waits for the lock.
C36_Witness ==
    /\ threads.at["ingest"] = "inside" /\ threads.op["ingest"] = "add_or_update"
    /\ threads.at["request"] = "between" /\ threads.op["request"] = "search"
    /\ threads.at["shutdown"] = "ensure"
    /\ threads.inits = 1

\* ------------------------------------------------ steady state
\* The pipeline with roots that are added and scanned, files that do not change,
\* thumbnails and embeddings that succeed, the catch-up loop, and no shutdown.
\* _catchup_loop: enqueue_missing_embeddings on every pass of the loop, for as long
\* as the process runs.
CatchUpLoop ==
    /\ ~stop
    /\ MissingEmbeddings(photos) # <<>>
    /\ LET rows == MissingEmbeddings(photos)
           room == IF IngestQueueMaxsize > 0
                   THEN Max(0, IngestQueueMaxsize - Len(q)) ELSE Len(rows)
           n == Min(room, Len(rows))
       IN /\ q' = q \o [i \in 1..n |-> IndexTask(rows[i].path, rows[i].root_id, "catchup")]
          /\ observed' = IF n < Len(rows) THEN "dropped" ELSE "placed"
    /\ UNCHANGED <<unit_state, tracked_roots, photos, thumbs, labels, deleted_labels, fs, scan_q, stop,
                   scan_progress, active_scan, active_ingest, watcher_blocked,
                   search_missing, recent_ingest, events, scans, second_ingest, scan_blocked>>

SteadyNext ==
    \/ \E dir \in Dirs : RootsAdd(dir)
    \/ ScanRootEnqueue
    \/ ScanGet
    \/ ScanStep
    \/ ScanEnd
    \/ IngestGet
    \/ IngestFinish(TRUE, TRUE, TRUE)
    \/ CatchUpLoop

\* Both threads keep running and a request waiting in enqueue_scan_root() gets
\* its turn, and the catch-up loop makes its passes; nothing makes a request come.
SteadyFairness ==
    /\ WF_vars(ScanGet)
    /\ SF_vars(ScanStep)
    /\ WF_vars(ScanEnd)
    /\ WF_vars(IngestGet)
    /\ WF_vars(IngestFinish(TRUE, TRUE, TRUE))
    /\ SF_vars(ScanRootEnqueue)
    /\ WF_vars(CatchUpLoop)

\* The process starts on an empty database, or on the database of an earlier run
\* that was interrupted in its scan of d1: the row of d1/a has its thumbnail and
\* no embedding, or the embedding of another model.
SteadyInit ==
    /\ \E model \in {ModelId, NULL, OtherModelId} :
          IF model = ModelId
          THEN /\ tracked_roots = <<>>
               /\ photos = {}
               /\ thumbs = {}
          ELSE /\ tracked_roots = With(<<>>, 1, [path |-> "d1", scan_started |-> TRUE,
                                                 scan_finished |-> "never"])
               /\ photos = {[NewRow({}, 1, "d1/a", 1) EXCEPT !.embedding_model = model]}
               /\ thumbs = {p.id : p \in photos}
    /\ WorkersIdle
    /\ IndexInit
    /\ WebInit
    /\ SplitInit
    /\ WorkerInit
    /\ SideInit
    /\ observed = "none"

SteadySpec == SteadyInit /\ [][SteadyNext]_vars /\ SteadyFairness

\* ---------------------------------------------------------------- C37
\* The paths the scan of a root has found so far.
FoundBy(root_id) ==
    {WalkOrder(tracked_roots[root_id].path)[i] : i \in 1..scan_progress[root_id].found}
\* Nothing is queued or in work, every photo a scan has found has its row with an
\* embedding of the active model, and the catch-up query selects nothing.
Quiescent ==
    /\ q = <<>> /\ scan_q = <<>>
    /\ active_scan = None /\ active_ingest = None
    /\ watcher_blocked = None /\ scan_blocked = None
    /\ MissingEmbeddings(photos) = <<>>
    /\ \A root_id \in DOMAIN scan_progress \cap DOMAIN tracked_roots :
          \A path \in FoundBy(root_id) :
              \E p \in photos : p.path = path /\ p.embedding_model = ModelId
CountsEnqueued(root_id) ==
    /\ root_id \in DOMAIN scan_progress
    /\ root_id \in DOMAIN scan_progress'
    /\ scan_progress'[root_id].enqueued > scan_progress[root_id].enqueued
\* The step puts the IndexTask of the scanner's next path on the ingest queue.
PlacesScanTask(root_id) ==
    /\ active_scan # None
    /\ active_scan[1].todo # <<>>
    /\ q' = Append(q, IndexTask(Head(active_scan[1].todo), root_id, "scan"))
\* C38: a scan's `enqueued` goes up by one exactly with a put of one of its tasks on
\* the ingest queue, and never exceeds `found`.
C38_EnqueuedCountsHandOffs ==
    [][\A root_id \in DOMAIN scan_progress' :
          /\ scan_progress'[root_id].enqueued <= scan_progress'[root_id].found
          /\ CountsEnqueued(root_id) =>
                /\ scan_progress'[root_id].enqueued = scan_progress[root_id].enqueued + 1
                /\ PlacesScanTask(root_id)]_vars

\* ---------------------------------------------------------------- C39
\* C39: once the walk of a root's current scan is over, its `processed` is at most
\* its `enqueued`.
C39_ProcessedWithinEnqueued ==
    \A root_id \in DOMAIN scan_progress :
        scan_progress[root_id].scan_done =>
            scan_progress[root_id].processed <= scan_progress[root_id].enqueued

\* ------------------------------------------------ scan wave
\* _run_scans at the start of a scan: `if self._scan_wave is None` a new aggregate,
\* then roots.add(task.root_id).
OpenWave(wave, root_id) ==
    LET w == IF wave = None
             THEN [roots |-> {}, found |-> 0, enqueued |-> 0, had_errors |-> FALSE]
             ELSE wave[1]
    IN Some([w EXCEPT !.roots = @ \cup {root_id}])
\* A finally block that publishes the aggregate after every scan.
WaveClosesAlways(queue, wave) == wave # None
\* The finally block: `self._scan_q.qsize() == 0 and self._scan_wave is not None`.
WaveCloses(queue, wave) == Len(queue) = 0 /\ wave # None
\* _last_scan_wave_summary as the finally block builds it from the aggregate.
WaveSummary(w) ==
    [roots |-> Cardinality(w.roots), found |-> w.found, enqueued |-> w.enqueued,
     had_errors |-> w.had_errors]
\* _last_scan_summary: root, found and enqueued of the scan that ends.
ScanSummary(root_id, prog) ==
    [root_id |-> root_id, found |-> prog.found, enqueued |-> prog.enqueued]
\* The walk loop: found += 1 and enqueued += 1 of the aggregate, each under
\* `if self._scan_wave is not None`.
WaveCounts(wave) ==
    IF wave = None THEN None
    ELSE Some([wave[1] EXCEPT !.found = @ + 1, !.enqueued = @ + 1])
\* The except block: had_errors of the aggregate.
WaveFlagErrors(wave) ==
    IF wave = None THEN None ELSE Some([wave[1] EXCEPT !.had_errors = TRUE])
\* The finally block of the scan of root_id. ran and closed keep the record: the
\* summaries of the scans that ended since the scanner last found its queue empty
\* at the end of a scan, and those of the scans before that moment.
WaveFinally(sw, queue, root_id, prog) ==
    LET ran1 == Append(sw.ran, ScanSummary(root_id, prog))
        closes == WaveCloses(queue, sw.wave)
    IN [wave |-> IF closes THEN None ELSE sw.wave,
        last |-> IF closes THEN Some(WaveSummary(sw.wave[1])) ELSE sw.last,
        ran |-> IF Len(queue) = 0 THEN <<>> ELSE ran1,
        closed |-> IF Len(queue) = 0 THEN ran1 ELSE sw.closed]

\* No scan has run.
WaveInit ==
    /\ PipelineInit
    /\ IndexInit
    /\ WebInit
    /\ SplitInit
    /\ WorkerInit
    /\ limiter = None
    /\ threads = None
    /\ flush = None
    /\ monitor = None
    /\ scan_wave = [wave |-> None, last |-> None, ran |-> <<>>, closed |-> <<>>]
    /\ observed = "none"

wave_rest == <<index_state, web_state, split_state, limiter, threads, flush, monitor,
               photos, thumbs, labels, deleted_labels, fs, stop, watcher_blocked,
               search_missing, recent_ingest, events, scans, second_ingest,
               scan_blocked, ingest_mark, scan_mark>>

\* _run_scans, from the get to the start of the walk.
WaveScanGet ==
    /\ ~stop
    /\ active_scan = None
    /\ scan_q # <<>>
    /\ LET task == Head(scan_q) IN
       /\ scan_q' = Tail(scan_q)
       /\ scan_progress' = With(scan_progress, task.root_id, NewProgress)
       /\ scan_wave' = [scan_wave EXCEPT !.wave = OpenWave(@, task.root_id)]
       /\ tracked_roots' = MarkScanStarted(tracked_roots, task.root_id)
       /\ active_scan' = Some([task |-> task,
                               todo |-> SelectSeq(WalkOrder(task.root_path),
                                                  LAMBDA p : fs[p] # 0)])
       /\ q' = OutdateSeq(q, task.root_id)
       /\ active_ingest' = IF active_ingest = None THEN None
                           ELSE Some([active_ingest[1] EXCEPT
                                      !.task = Outdate(@, task.root_id)])
    /\ observed' = "none"
    /\ UNCHANGED <<wave_rest, failed_total, last_failed>>

\* _run_scans, one turn of the walk loop.
WaveScanStep ==
    /\ active_scan # None
    /\ active_scan[1].todo # <<>>
    /\ EnqueueReturns(q, IngestQueueMaxsize, stop)
    /\ LET task == active_scan[1].task
           root_id == task.root_id
           prog == scan_progress[root_id]
       IN /\ q' = Enqueue(q, IndexTask(Head(active_scan[1].todo), root_id, "scan"), stop)
          /\ scan_progress' = [scan_progress EXCEPT
                                 ![root_id].found = prog.found + 1,
                                 ![root_id].enqueued = prog.enqueued + 1]
          /\ scan_wave' = [scan_wave EXCEPT !.wave = WaveCounts(@)]
          /\ active_scan' = Some([active_scan[1] EXCEPT !.todo = Tail(@)])
    /\ observed' = "none"
    /\ UNCHANGED <<wave_rest, tracked_roots, scan_q, active_ingest, failed_total,
                   last_failed>>

\* _run_scans, after the walk: scan_done, _maybe_mark_scan_finished, the finally
\* block.
WaveScanEnd ==
    /\ active_scan # None
    /\ active_scan[1].todo = <<>>
    /\ LET root_id == active_scan[1].task.root_id
           progress1 == [scan_progress EXCEPT ![root_id].scan_done = TRUE]
       IN /\ scan_progress' = progress1
          /\ tracked_roots' = MaybeMarkScanFinished(tracked_roots, progress1, root_id)
          /\ scan_wave' = WaveFinally(scan_wave, scan_q, root_id, progress1[root_id])
    /\ active_scan' = None
    /\ observed' = "none"
    /\ UNCHANGED <<wave_rest, q, scan_q, active_ingest, failed_total, last_failed>>

\* _run_scans: the scan raises; the except block, then the finally block.
WaveScanFail ==
    /\ active_scan # None
    /\ failed_total < MaxFailed
    /\ LET task == active_scan[1].task
           f == RecordFailure(failed_total, task.root_id, CurrentPath(scan_progress, task))
           progress1 == FlagErrors(scan_progress, task.root_id)
       IN /\ scan_progress' = progress1
          /\ failed_total' = f.failed_total
          /\ last_failed' = f.last_failed
          /\ scan_wave' = WaveFinally([scan_wave EXCEPT !.wave = WaveFlagErrors(@)],
                                      scan_q, task.root_id, progress1[task.root_id])
    /\ active_scan' = None
    /\ observed' = "raised"
    /\ UNCHANGED <<wave_rest, tracked_roots, q, scan_q, active_ingest>>

WaveNext ==
    \/ \E dir \in Dirs : RootsAdd(dir)
    \/ ScanRootEnqueue
    \/ WaveScanGet
    \/ WaveScanStep
    \/ WaveScanEnd
    \/ WaveScanFail
    \/ IngestGet
    \/ IngestFinish(TRUE, TRUE, TRUE)
    \/ Stop

WaveSpec == WaveInit /\ [][WaveNext]_vars

\* ---------------------------------------------------------------- C40
RECURSIVE TotalFound(_)
TotalFound(scans_) ==
    IF scans_ = <<>> THEN 0 ELSE Head(scans_).found + TotalFound(Tail(scans_))
RECURSIVE TotalEnqueued(_)
TotalEnqueued(scans_) ==
    IF scans_ = <<>> THEN 0 ELSE Head(scans_).enqueued + TotalEnqueued(Tail(scans_))
RootsOf(scans_) == {scans_[i].root_id : i \in 1..Len(scans_)}
\* The scanner is between two tasks, or has left its loop.
ScannerIdle == active_scan = None
\* C40: with the scanner idle on an empty scan queue no wave is open; a scan that
\* runs is in the open wave, whose roots are those of the scans since the queue was
\* last found empty; and the published summary counts the distinct roots and sums
\* found and enqueued of exactly the scans of the wave that closed last.
C40_WaveCoversItsScans ==
    /\ (ScannerIdle /\ scan_q = <<>>) => scan_wave.wave = None
    /\ (~ScannerIdle \/ scan_wave.ran # <<>>) => scan_wave.wave # None
    /\ scan_wave.wave # None =>
          scan_wave.wave[1].roots =
              RootsOf(scan_wave.ran) \cup
              (IF ScannerIdle THEN {} ELSE {active_scan[1].task.root_id})
    /\ (scan_wave.closed # <<>>) <=> (scan_wave.last # None)
    /\ scan_wave.last # None =>
          /\ scan_wave.last[1].roots = Cardinality(RootsOf(scan_wave.closed))
          /\ scan_wave.last[1].found = TotalFound(scan_wave.closed)
          /\ scan_wave.last[1].enqueued = TotalEnqueued(scan_wave.closed)
\* A wave of two scans has been published and none is open.
C40_Witness ==
    /\ scan_wave.wave = None
    /\ scan_wave.last # None
    /\ Len(scan_wave.closed) = 2
    /\ scan_wave.last[1].found = 2

====
